---- MODULE Spec2Model ----
(***************************************************************************)
(* A model of the article analysis and timeline synthesis engine of the    *)
(* news backend: NewsScraper (services/news_scraper.py), NLPProcessor      *)
(* (services/nlp_processor.py), SimilarityAnalyzer                         *)
(* (services/similarity_analyzer.py) and TimelineGenerator                 *)
(* (services/timeline_generator.py), driven the way app.py drives them.    *)
(*                                                                         *)
(* Representation.                                                         *)
(*   - A text (Python str) is a sequence of characters.  A character is a  *)
(*     one-element string for printable ASCII and for tab, newline and     *)
(*     carriage return ("a", " ", ".", "\t", "\n", "\r") and the string    *)
(*     "Uxxxx" for any other code point U+xxxx ("U0E01", "U00A0", and      *)
(*     "U0060" for the grave accent), so that the regular expressions of   *)
(*     the source can be evaluated character by character.  The alphabet   *)
(*     of the model is ASCII, the Thai block and the white space of the    *)
(*     Unicode database.                                                   *)
(*   - A Python dict is a function on strings (a record); a key that is    *)
(*     absent from the dict is absent from the DOMAIN.  Where the code     *)
(*     expects a dict and a stored document can hold a list (the entities  *)
(*     of the sample document of init_mongodb.py), the list is written     *)
(*     [kind |-> "list", value |-> the list].                              *)
(*   - A float is a fixed-point integer in units of 1/Scale.               *)
(*   - None is the record NoneValue.                                       *)
(*   - A raised exception is a result whose status is "raised".            *)
(*   - A list built from a Python set has the hash order of the set, which *)
(*     changes from run to run.  An operation with such a list in its      *)
(*     result is the set of the results it can return, one for every       *)
(*     order, and an action takes any of them; the lists of                *)
(*     _compare_entities and _compare_keywords, which can hold dozens of   *)
(*     entries, are given without their order, as a bag and as a set.      *)
(*                                                                         *)
(* Specifications.                                                         *)
(*   - Spec: the requests of app.py, each in a thread of its own, and the  *)
(*     functions of init_mongodb.py on the same store: an analysis request *)
(*     scrapes the pages of its urls, enriches the records, generates the  *)
(*     timeline and stores the analysis; a comparison request looks two    *)
(*     articles up in the store; the script creates the indexes and        *)
(*     inserts the sample documents.  A step is the code up to its next    *)
(*     call that waits.                                                    *)
(*   - FunctionSpec: the operations of the comparator, of the enricher and *)
(*     of the timeline generator, each applied to inputs drawn from        *)
(*     bounded sets.                                                       *)
(***************************************************************************)
EXTENDS Integers, Sequences, FiniteSets, Bags, TLC

(***************************************************************************)
(* Bounds of the model.                                                    *)
(***************************************************************************)
MaxArticles == 3

(***************************************************************************)
(* Fixed-point unit: the float 1.0.                                        *)
(***************************************************************************)
Scale == 1000

\* the distance, in 1/Scale, within which the fixed-point arithmetic follows
\* the floats
FloatTol == 5

NoneValue == [kind |-> "None"]

(***************************************************************************)
(* Python dict.get(key, default).                                          *)
(***************************************************************************)
Get(d, k, default) == IF k \in DOMAIN d THEN d[k] ELSE default

\* a value that is a Python list where a dict is expected: keys(), values()
\* and items() raise AttributeError on it
IsList(value) == "kind" \in DOMAIN value /\ value.kind = "list"

(***************************************************************************)
(* Character classes of Python's re module for str patterns.               *)
(***************************************************************************)
LowerSeq == << "a", "b", "c", "d", "e", "f", "g", "h", "i", "j", "k", "l", "m",
               "n", "o", "p", "q", "r", "s", "t", "u", "v", "w", "x", "y", "z" >>
UpperSeq == << "A", "B", "C", "D", "E", "F", "G", "H", "I", "J", "K", "L", "M",
               "N", "O", "P", "Q", "R", "S", "T", "U", "V", "W", "X", "Y", "Z" >>

Range(s) == { s[i] : i \in DOMAIN s }

\* [a-zA-Z]
LatinLetters == Range(LowerSeq) \cup Range(UpperSeq)

\* \d : the decimal digits of the Unicode database; in the model's alphabet
\* the ASCII digits and the Thai digits U+0E50-U+0E59
Digits ==
   { "0", "1", "2", "3", "4", "5", "6", "7", "8", "9",
     "U0E50", "U0E51", "U0E52", "U0E53", "U0E54", "U0E55", "U0E56", "U0E57",
     "U0E58", "U0E59" }

\* [U+0E01-U+0E2E], the class written [ko kai - ho nokhuk] in the source
ThaiKoHo ==
   { "U0E01", "U0E02", "U0E03", "U0E04", "U0E05", "U0E06", "U0E07", "U0E08",
     "U0E09", "U0E0A", "U0E0B", "U0E0C", "U0E0D", "U0E0E", "U0E0F", "U0E10",
     "U0E11", "U0E12", "U0E13", "U0E14", "U0E15", "U0E16", "U0E17", "U0E18",
     "U0E19", "U0E1A", "U0E1B", "U0E1C", "U0E1D", "U0E1E", "U0E1F", "U0E20",
     "U0E21", "U0E22", "U0E23", "U0E24", "U0E25", "U0E26", "U0E27", "U0E28",
     "U0E29", "U0E2A", "U0E2B", "U0E2C", "U0E2D", "U0E2E" }

\* Thai letters outside [U+0E01-U+0E2E] (category Lo/Lm): word characters
ThaiOtherLetters ==
   { "U0E2F", "U0E30", "U0E32", "U0E33", "U0E40", "U0E41", "U0E42", "U0E43",
     "U0E44", "U0E45", "U0E46" }

\* Thai combining marks (category Mn): NOT word characters
ThaiMarks ==
   { "U0E31", "U0E34", "U0E35", "U0E36", "U0E37", "U0E38", "U0E39", "U0E3A",
     "U0E47", "U0E48", "U0E49", "U0E4A", "U0E4B", "U0E4C", "U0E4D", "U0E4E" }

\* \s, and the characters str.strip() removes: the white space of the Unicode
\* database (str.isspace)
Whitespace ==
   { "\t", "\n", "U000B", "U000C", "\r", "U001C", "U001D", "U001E", "U001F",
     " ", "U0085", "U00A0", "U1680", "U2000", "U2001", "U2002", "U2003",
     "U2004", "U2005", "U2006", "U2007", "U2008", "U2009", "U200A", "U2028",
     "U2029", "U202F", "U205F", "U3000" }

\* \w : alphanumeric in the Unicode database, or underscore
WordChars == LatinLetters \cup Digits \cup { "_" } \cup ThaiKoHo \cup ThaiOtherLetters

\* [U+0E01-U+0E2E\s]
ThaiKoHoOrSpace == ThaiKoHo \cup Whitespace

\* [.!?]
SentenceEnd == { ".", "!", "?" }

(***************************************************************************)
(* str.lower() on one character and on a text.                             *)
(***************************************************************************)
LowerChar(c) ==
   IF c \in Range(UpperSeq)
   THEN LowerSeq[CHOOSE i \in DOMAIN UpperSeq : UpperSeq[i] = c]
   ELSE c

Lower(s) == [ i \in DOMAIN s |-> LowerChar(s[i]) ]

(***************************************************************************)
(* Generic sequence helpers.                                               *)
(***************************************************************************)
\* len(re.findall('[class]', text))
CountIn(s, class) == Cardinality({ i \in DOMAIN s : s[i] \in class })

\* s[a:b] with 0-based half-open Python bounds, 0 <= a, b <= len(s)
Slice(s, a, b) == IF b <= a THEN << >> ELSE SubSeq(s, a + 1, b)

RECURSIVE LStripFrom(_, _)
LStripFrom(s, i) ==
   IF i > Len(s) THEN Len(s) + 1
   ELSE IF s[i] \in Whitespace THEN LStripFrom(s, i + 1) ELSE i

RECURSIVE RStripFrom(_, _)
RStripFrom(s, j) ==
   IF j < 1 THEN 0
   ELSE IF s[j] \in Whitespace THEN RStripFrom(s, j - 1) ELSE j

\* str.strip()
Strip(s) == SubSeq(s, LStripFrom(s, 1), RStripFrom(s, Len(s)))

\* ' '.join(parts)
RECURSIVE JoinSpace(_)
JoinSpace(parts) ==
   IF Len(parts) = 0 THEN << >>
   ELSE IF Len(parts) = 1 THEN parts[1]
   ELSE parts[1] \o << " " >> \o JoinSpace(Tail(parts))

\* sum of f over the finite set S
RECURSIVE SumFn(_, _)
SumFn(f, S) ==
   IF S = {} THEN 0
   ELSE LET x == CHOOSE y \in S : TRUE IN f[x] + SumFn(f, S \ {x})

\* floor of the square root of n < 46341 * 46341, by bisection on lo <= r < hi
RECURSIVE SqrtBetween(_, _, _)
SqrtBetween(n, lo, hi) ==
   IF hi - lo <= 1 THEN lo
   ELSE LET mid == (lo + hi) \div 2
        IN  IF mid * mid <= n THEN SqrtBetween(n, mid, hi)
            ELSE SqrtBetween(n, lo, mid)

\* the maximal runs of characters of `class` in s, each of length >= minlen,
\* in order of appearance: re.findall(r'\b\w+\b') for class = \w, minlen = 1
Runs(s, class, minlen) ==
   LET Positions(test(_)) == SelectSeq([ i \in 1..Len(s) |-> i ], test)
       FromTo(starts, ends) ==
          [ k \in DOMAIN starts |-> SubSeq(s, starts[k], ends[k]) ]
   IN  SelectSeq(
          FromTo(Positions(LAMBDA i : s[i] \in class /\ (i = 1 \/ s[i - 1] \notin class)),
                 Positions(LAMBDA i : s[i] \in class
                                        /\ (i = Len(s) \/ s[i + 1] \notin class))),
          LAMBDA run : Len(run) >= minlen)

(***************************************************************************)
(* Code-point order of the characters, for sorted() / alphabetical order   *)
(* of strings (the characters of the model's alphabet).                    *)
(***************************************************************************)
CharOrder ==
   << "\t", "\n", "U000B", "U000C", "\r", "U001C", "U001D", "U001E", "U001F",
      " ", "!", "\"", "#", "$", "%", "&", "'", "(", ")", "*", "+", ",", "-",
      ".", "/", "0", "1", "2", "3", "4", "5", "6", "7", "8", "9", ":", ";",
      "<", "=", ">", "?", "@", "A", "B", "C", "D", "E", "F", "G", "H", "I",
      "J", "K", "L", "M", "N", "O", "P", "Q", "R", "S", "T", "U", "V", "W",
      "X", "Y", "Z", "[", "\\", "]", "^", "_", "U0060", "a", "b", "c", "d", "e",
      "f", "g", "h", "i", "j", "k", "l", "m", "n", "o", "p", "q", "r", "s",
      "t", "u", "v", "w", "x", "y", "z", "{", "|", "}", "~", "U0085",
      "U00A0", "U0E01", "U0E02", "U0E03", "U0E04", "U0E05", "U0E06", "U0E07",
      "U0E08", "U0E09", "U0E0A", "U0E0B", "U0E0C", "U0E0D", "U0E0E", "U0E0F",
      "U0E10", "U0E11", "U0E12", "U0E13", "U0E14", "U0E15", "U0E16", "U0E17",
      "U0E18", "U0E19", "U0E1A", "U0E1B", "U0E1C", "U0E1D", "U0E1E", "U0E1F",
      "U0E20", "U0E21", "U0E22", "U0E23", "U0E24", "U0E25", "U0E26", "U0E27",
      "U0E28", "U0E29", "U0E2A", "U0E2B", "U0E2C", "U0E2D", "U0E2E", "U0E2F",
      "U0E30", "U0E31", "U0E32", "U0E33", "U0E34", "U0E35", "U0E36", "U0E37",
      "U0E38", "U0E39", "U0E3A", "U0E3F", "U0E40", "U0E41", "U0E42", "U0E43",
      "U0E44", "U0E45", "U0E46", "U0E47", "U0E48", "U0E49", "U0E4A", "U0E4B",
      "U0E4C", "U0E4D", "U0E4E", "U0E4F", "U0E50", "U0E51", "U0E52", "U0E53",
      "U0E54", "U0E55", "U0E56", "U0E57", "U0E58", "U0E59", "U0E5A", "U0E5B",
      "U1680", "U2000", "U2001", "U2002", "U2003", "U2004", "U2005", "U2006",
      "U2007", "U2008", "U2009", "U200A", "U2028", "U2029", "U202F", "U205F",
      "U3000" >>

\* ord(c), as the position of c in CharOrder
CharCode == [ c \in Range(CharOrder) |-> CHOOSE i \in DOMAIN CharOrder : CharOrder[i] = c ]

\* a < b for Python strings
RECURSIVE StrLess(_, _)
StrLess(a, b) ==
   IF Len(b) = 0 THEN FALSE
   ELSE IF Len(a) = 0 THEN TRUE
   ELSE IF a[1] = b[1] THEN StrLess(Tail(a), Tail(b))
   ELSE CharCode[a[1]] < CharCode[b[1]]

\* sorted(S) for a set of strings
RECURSIVE SortStrings(_)
SortStrings(S) ==
   LET LeastFirst(m) == << m >> \o SortStrings(S \ {m})
   IN  IF S = {} THEN << >>
       ELSE LeastFirst(CHOOSE x \in S : \A y \in S \ {x} : StrLess(x, y))

\* list.sort(key=..., reverse=True): stable, descending in key[e]
RECURSIVE InsertDesc(_, _, _)
InsertDesc(sorted, e, key) ==
   IF Len(sorted) = 0 THEN << e >>
   ELSE IF key[Head(sorted)] >= key[e]
        THEN << Head(sorted) >> \o InsertDesc(Tail(sorted), e, key)
        ELSE << e >> \o sorted

RECURSIVE SortDesc(_, _)
SortDesc(seq, key) ==
   IF Len(seq) = 0 THEN << >>
   ELSE InsertDesc(SortDesc(SubSeq(seq, 1, Len(seq) - 1), key), seq[Len(seq)], key)

\* seq[:n]
Take(seq, n) == SubSeq(seq, 1, IF Len(seq) < n THEN Len(seq) ELSE n)

(***************************************************************************)
(* A small regular-expression matcher for the patterns of the source.  A   *)
(* pattern is a sequence of parts [class, min, max]: between min and max   *)
(* characters of class, taken greedily (max = 0: unbounded).  Adjacent     *)
(* variable-length parts of the source's patterns have disjoint classes or *)
(* end the pattern, so greedy matching without backtracking is exact.      *)
(***************************************************************************)
One(cl) == [class |-> cl, min |-> 1, max |-> 1]
Plus(cl) == [class |-> cl, min |-> 1, max |-> 0]
Star(cl) == [class |-> cl, min |-> 0, max |-> 0]
Between(cl, lo, hi) == [class |-> cl, min |-> lo, max |-> hi]
Lits(str) == [ i \in DOMAIN str |-> One({ str[i] }) ]

\* number of consecutive characters of class from position i, at most max
RECURSIVE RunLen(_, _, _, _, _)
RunLen(s, i, class, max, icase) ==
   IF i > Len(s) THEN 0
   ELSE IF (IF icase THEN LowerChar(s[i]) ELSE s[i]) \in class
        THEN 1 + (IF max = 1 THEN 0
                  ELSE RunLen(s, i + 1, class, IF max = 0 THEN 0 ELSE max - 1, icase))
        ELSE 0

\* position after the match of parts at position i, or 0 when there is none
RECURSIVE MatchAt(_, _, _, _)
MatchAt(s, i, parts, icase) ==
   LET \* the rest of the match once the first part has taken n characters
       Rest(n) == IF n < Head(parts).min THEN 0
                  ELSE MatchAt(s, i + n, Tail(parts), icase)
   IN  IF Len(parts) = 0 THEN i
       ELSE Rest(RunLen(s, i, Head(parts).class, Head(parts).max, icase))

\* re.finditer(pattern, s): the non-overlapping matches, left to right, as
\* [start, end] with 0-based start and exclusive end (match.start(), match.end())
RECURSIVE FindIter(_, _, _, _)
FindIter(s, i, parts, icase) ==
   LET \* the positions from i on where the pattern matches a non-empty text
       starts == { p \in i .. Len(s) : MatchAt(s, p, parts, icase) > p }
       From(p, e) ==
          << [start |-> p - 1, end |-> e - 1] >> \o FindIter(s, e, parts, icase)
       First(p) == From(p, MatchAt(s, p, parts, icase))
   IN  IF starts = {} THEN << >>
       ELSE First(CHOOSE p \in starts : \A q \in starts : p <= q)

(***************************************************************************)
(* sklearn.feature_extraction.text.TfidfVectorizer (library), as the two   *)
(* classes use it: lowercase=True, token_pattern (?u)\b\w\w+\b,            *)
(* ngram_range=(1, 2), smooth idf, l2 norm.                                *)
(***************************************************************************)
\* stop_words='english': the entries of sklearn's list that also are in
\* NLPProcessor.english_stopwords
SklearnEnglishStopWords ==
   { << "t", "h", "e" >>, << "a" >>, << "a", "n" >>, << "a", "n", "d" >>, << "o", "r" >>,
     << "b", "u", "t" >>, << "i", "n" >>, << "o", "n" >>, << "a", "t" >>, << "t", "o" >>,
     << "f", "o", "r" >>, << "o", "f" >>, << "w", "i", "t", "h" >>, << "b", "y" >>,
     << "f", "r", "o", "m" >>, << "i", "s" >>, << "w", "a", "s" >>, << "a", "r", "e" >>,
     << "w", "e", "r", "e" >>, << "b", "e" >>, << "b", "e", "e", "n" >>, << "h", "a", "v", "e" >>,
     << "h", "a", "s" >>, << "h", "a", "d" >>, << "w", "i", "l", "l" >>,
     << "w", "o", "u", "l", "d" >>, << "c", "o", "u", "l", "d" >>,
     << "s", "h", "o", "u", "l", "d" >>, << "m", "a", "y" >>, << "m", "i", "g", "h", "t" >> }

\* stop_words='english' if language == 'en' else None
StopWordsFor(language) ==
   IF language = "en" THEN SklearnEnglishStopWords ELSE {}

\* the analyzer: lower-case, tokens of two or more word characters, stop
\* words removed, then the unigrams followed by the bigrams
Analyze(doc, stops) ==
   LET WithBigrams(toks) ==
          toks \o [ i \in 1 .. (IF Len(toks) = 0 THEN 0 ELSE Len(toks) - 1) |->
                      toks[i] \o << " " >> \o toks[i + 1] ]
   IN  WithBigrams(SelectSeq(Runs(Lower(doc), WordChars, 2), LAMBDA t : t \notin stops))

\* term frequency of feature f in a document's feature list
TermCount(feats, f) == Cardinality({ i \in DOMAIN feats : feats[i] = f })

\* v / ||v||_2 in units of 1/Scale, each component rounded to the nearest
\* unit; the zero vector stays zero
Normalize(v) ==
   LET Scaled(norm) ==
          [ f \in DOMAIN v |->
             IF norm = 0 THEN 0 ELSE (2 * v[f] * Scale + norm) \div (2 * norm) ]
   IN  Scaled(SqrtBetween(SumFn([ f \in DOMAIN v |-> v[f] * v[f] ], DOMAIN v), 0, 46341))

\* fit_transform(texts): raises ValueError on an empty vocabulary, else one
\* l2-normalised tf-idf row per document.  idf = ln((1 + n) / (1 + df)) + 1
\* in thousandths, for a corpus of n <= 2 documents: ln(1) + 1 = 1.000 and
\* ln(3/2) + 1 = 1.405
AllTerms(docs) == UNION { Range(docs[k]) : k \in DOMAIN docs }

TfidfFitTransform(texts, stops, max_features) ==
   LET \* max_features: keep the max_features terms with the highest corpus frequency
       LimitFeatures(docs, vocab) ==
          IF Cardinality(vocab) <= max_features THEN vocab
          ELSE Range(Take(SortDesc(SortStrings(vocab),
                                   [ f \in vocab |->
                                      SumFn([ k \in DOMAIN docs |-> TermCount(docs[k], f) ],
                                            DOMAIN docs) ]),
                          max_features))
       Idf(n, df) == IF n = 2 /\ df = 1 THEN 1405 ELSE 1000
       Rows(docs, vocab) ==
          [status |-> "ok",
           feature_names |-> SortStrings(vocab),
           rows |-> [ k \in DOMAIN docs |->
                       Normalize([ f \in vocab |->
                          TermCount(docs[k], f)
                          * Idf(Len(docs),
                                Cardinality({ d \in DOMAIN docs :
                                                TermCount(docs[d], f) > 0 })) ]) ]]
       OfDocs(docs) ==
          IF AllTerms(docs) = {} THEN [status |-> "raised", error |-> "ValueError"]
          ELSE Rows(docs, LimitFeatures(docs, AllTerms(docs)))
   IN  OfDocs([ k \in DOMAIN texts |-> Analyze(texts[k], stops) ])

\* sklearn.metrics.pairwise.cosine_similarity of two rows
cosine_similarity(x, y) ==
   LET DotProduct(xn, yn) ==
          SumFn([ f \in DOMAIN xn |-> xn[f] * yn[f] ], DOMAIN xn) \div Scale
   IN  DotProduct(Normalize(x), Normalize(y))

(***************************************************************************)
(* NLPProcessor.__init__: the fixed tables.                                *)
(***************************************************************************)
thai_stopwords == { << "U0E02", "U0E2D", "U0E07" >> }

\* thai_entity_patterns['PERSON'] (nlp_processor.py lines 27-33)
PersonPatterns ==
   << Lits(<< "U0E19", "U0E32", "U0E22" >>) \o << One(ThaiKoHo) >> \o << Plus(ThaiKoHoOrSpace) >>,
      Lits(<< "U0E19", "U0E32", "U0E07" >>) \o << One(ThaiKoHo) >> \o << Plus(ThaiKoHoOrSpace) >>,
      Lits(<< "U0E19", ".", "U0E2A", "." >>) \o << One(ThaiKoHo) >> \o << Plus(ThaiKoHoOrSpace) >>,
      Lits(<< "U0E14", "U0E23", "." >>) \o << One(ThaiKoHo) >> \o << Plus(ThaiKoHoOrSpace) >>,
      Lits(<< "U0E28", "." >>) \o << One(ThaiKoHo) >> \o << Plus(ThaiKoHoOrSpace) >>,
      Lits(<< "U0E23", "U0E28", "." >>) \o << One(ThaiKoHo) >> \o << Plus(ThaiKoHoOrSpace) >>,
      Lits(<< "U0E1C", "U0E28", "." >>) \o << One(ThaiKoHo) >> \o << Plus(ThaiKoHoOrSpace) >> >>

\* thai_entity_patterns['ORGANIZATION'] (nlp_processor.py lines 36-42)
OrganizationPatterns ==
   << Lits(<< "U0E01", "U0E23", "U0E30", "U0E17", "U0E23", "U0E27", "U0E07" >>) \o << Plus(ThaiKoHoOrSpace) >>,
      Lits(<< "U0E01", "U0E23", "U0E21" >>) \o << Plus(ThaiKoHoOrSpace) >>,
      Lits(<< "U0E2D", "U0E07", "U0E04", "U0E4C", "U0E01", "U0E32", "U0E23" >>) \o << Plus(ThaiKoHoOrSpace) >>,
      Lits(<< "U0E1A", "U0E23", "U0E34", "U0E29", "U0E31", "U0E17" >>) \o << Plus(ThaiKoHoOrSpace) >>,
      Lits(<< "U0E21", "U0E2B", "U0E32", "U0E27", "U0E34", "U0E17", "U0E22", "U0E32", "U0E25", "U0E31", "U0E22" >>) \o << Plus(ThaiKoHoOrSpace) >>,
      Lits(<< "U0E42", "U0E23", "U0E07", "U0E40", "U0E23", "U0E35", "U0E22", "U0E19" >>) \o << Plus(ThaiKoHoOrSpace) >>,
      Lits(<< "U0E1E", "U0E23", "U0E23", "U0E04" >>) \o << Plus(ThaiKoHoOrSpace) >> >>

\* thai_entity_patterns['LOCATION'] (nlp_processor.py lines 45-50)
LocationPatterns ==
   << Lits(<< "U0E08", "U0E31", "U0E07", "U0E2B", "U0E27", "U0E31", "U0E14" >>) \o << Plus(ThaiKoHoOrSpace) >>,
      Lits(<< "U0E2D", "U0E33", "U0E40", "U0E20", "U0E2D" >>) \o << Plus(ThaiKoHoOrSpace) >>,
      Lits(<< "U0E15", "U0E33", "U0E1A", "U0E25" >>) \o << Plus(ThaiKoHoOrSpace) >>,
      Lits(<< "U0E01", "U0E23", "U0E38", "U0E07", "U0E40", "U0E17", "U0E1E" >>) \o << Star(ThaiKoHo) >>,
      Lits(<< "U0E40", "U0E21", "U0E37", "U0E2D", "U0E07" >>) \o << Plus(ThaiKoHoOrSpace) >>,
      Lits(<< "U0E1B", "U0E23", "U0E30", "U0E40", "U0E17", "U0E28" >>) \o << Plus(ThaiKoHoOrSpace) >> >>

\* thai_event_patterns (nlp_processor.py lines 202-209)
thai_event_patterns ==
   << Lits(<< "U0E40", "U0E01", "U0E34", "U0E14", "U0E40", "U0E2B", "U0E15", "U0E38" >>) \o << Plus(ThaiKoHoOrSpace) >>,
      Lits(<< "U0E40", "U0E2A", "U0E35", "U0E22", "U0E0A", "U0E35", "U0E27", "U0E34", "U0E15" >>) \o << Star(ThaiKoHoOrSpace) >>,
      Lits(<< "U0E44", "U0E14", "U0E49", "U0E23", "U0E31", "U0E1A", "U0E1A", "U0E32", "U0E14", "U0E40", "U0E08", "U0E47", "U0E1A" >>) \o << Star(ThaiKoHoOrSpace) >>,
      Lits(<< "U0E1B", "U0E23", "U0E30", "U0E01", "U0E32", "U0E28" >>) \o << Plus(ThaiKoHoOrSpace) >>,
      Lits(<< "U0E40", "U0E1B", "U0E34", "U0E14", "U0E40", "U0E1C", "U0E22" >>) \o << Plus(ThaiKoHoOrSpace) >>,
      Lits(<< "U0E25", "U0E07", "U0E19", "U0E32", "U0E21" >>) \o << Plus(ThaiKoHoOrSpace) >>,
      Lits(<< "U0E1B", "U0E23", "U0E30", "U0E0A", "U0E38", "U0E21" >>) \o << Plus(ThaiKoHoOrSpace) >>,
      Lits(<< "U0E41", "U0E16", "U0E25", "U0E07", "U0E02", "U0E48", "U0E32", "U0E27" >>) \o << Star(ThaiKoHoOrSpace) >> >>

\* english_event_patterns (nlp_processor.py lines 214-220)
english_event_patterns ==
   << Lits(<< "a", "n", "n", "o", "u", "n", "c", "e", "d" >>) \o << Plus(Whitespace) >> \o << Plus(WordChars) >>,
      Lits(<< "d", "e", "c", "l", "a", "r", "e", "d" >>) \o << Plus(Whitespace) >> \o << Plus(WordChars) >>,
      Lits(<< "s", "i", "g", "n", "e", "d" >>) \o << Plus(Whitespace) >> \o << Plus(WordChars) >>,
      Lits(<< "m", "e", "e", "t", "i", "n", "g" >>) \o << Plus(Whitespace) >> \o << Plus(WordChars) >>,
      Lits(<< "c", "o", "n", "f", "e", "r", "e", "n", "c", "e" >>) \o << Plus(Whitespace) >> \o << Plus(WordChars) >>,
      Lits(<< "d", "i", "e", "d" >>) \o << Plus(Whitespace) >> \o << Star(WordChars) >>,
      Lits(<< "i", "n", "j", "u", "r", "e", "d" >>) \o << Plus(Whitespace) >> \o << Star(WordChars) >> >>

\* thai_date_patterns (nlp_processor.py lines 248-250)
thai_date_patterns ==
   << << Between(Digits, 1, 2) >> \o << Plus(Whitespace) >> \o << Plus(ThaiKoHo) >> \o << Plus(Whitespace) >> \o << Between(Digits, 4, 4) >>,
      << Between(Digits, 1, 2) >> \o Lits(<< "/" >>) \o << Between(Digits, 1, 2) >> \o Lits(<< "/" >>) \o << Between(Digits, 4, 4) >>,
      << Between(Digits, 1, 2) >> \o Lits(<< "-" >>) \o << Between(Digits, 1, 2) >> \o Lits(<< "-" >>) \o << Between(Digits, 4, 4) >> >>

\* self.english_stopwords (nlp_processor.py lines 18-22)
english_stopwords ==
   {
     << "t", "h", "e" >>, << "a" >>, << "a", "n" >>, << "a", "n", "d" >>, << "o", "r" >>,
     << "b", "u", "t" >>, << "i", "n" >>, << "o", "n" >>, << "a", "t" >>, << "t", "o" >>,
     << "f", "o", "r" >>, << "o", "f" >>, << "w", "i", "t", "h" >>, << "b", "y" >>,
     << "f", "r", "o", "m" >>, << "i", "s" >>, << "w", "a", "s" >>, << "a", "r", "e" >>,
     << "w", "e", "r", "e" >>, << "b", "e" >>, << "b", "e", "e", "n" >>, << "h", "a", "v", "e" >>,
     << "h", "a", "s" >>, << "h", "a", "d" >>, << "w", "i", "l", "l" >>,
     << "w", "o", "u", "l", "d" >>, << "c", "o", "u", "l", "d" >>,
     << "s", "h", "o", "u", "l", "d" >>, << "m", "a", "y" >>, << "m", "i", "g", "h", "t" >> }

\* NLPProcessor() (nlp_processor.py lines 16-52): the attributes of a new
\* processor
NLPProcessor ==
   [thai_stopwords |-> thai_stopwords,
    english_stopwords |-> english_stopwords,
    thai_entity_patterns |->
       [PERSON |-> PersonPatterns, ORGANIZATION |-> OrganizationPatterns,
        LOCATION |-> LocationPatterns]]

(***************************************************************************)
(* datetime values: a local calendar date and hour, and for an aware       *)
(* value the UTC offset in hours.                                          *)
(***************************************************************************)
DateTime(y, m, d, h) ==
   [kind |-> "datetime", y |-> y, m |-> m, d |-> d, h |-> h, aware |-> FALSE, off |-> 0]

IsNone(v) == v.kind = "None"

\* datetime.utcnow(): the moment of the request
UtcNow == DateTime(2024, 1, 3, 12)

(***************************************************************************)
(* NLPProcessor._detect_language (nlp_processor.py lines 101-111)          *)
(***************************************************************************)
detect_language(text) ==
   LET OfCounts(thai_chars, english_chars) ==
          IF thai_chars > english_chars THEN "th"
          ELSE IF english_chars > thai_chars THEN "en"
          ELSE "mixed"
   IN  OfCounts(CountIn(text, ThaiKoHo), CountIn(text, LatinLetters))

(***************************************************************************)
(* pythainlp.word_tokenize(text, engine='newmm') (library): the text is    *)
(* cut where the script changes (Thai, Latin, digits, blanks, each newline *)
(* and other characters), and a Thai stretch is cut into dictionary words  *)
(* by longest match, characters outside any word being kept together.      *)
(***************************************************************************)
TokenClass(c) ==
   IF c \in ThaiKoHo \cup ThaiOtherLetters \cup ThaiMarks THEN "thai"
   ELSE IF c \in LatinLetters \cup { "-" } THEN "latin"
   ELSE IF c \in Digits THEN "digit"
   ELSE IF c \in { " ", "\t" } THEN "blank"
   ELSE IF c = "\n" THEN "newline"
   ELSE "other"

\* the pieces start at the first character, at every change of class and at
\* every newline
SplitByClass(s) ==
   LET starts == SelectSeq([ i \in 1 .. Len(s) |-> i ],
                           LAMBDA i : \/ i = 1
                                      \/ TokenClass(s[i]) # TokenClass(s[i - 1])
                                      \/ s[i] = "\n")
   IN  [ k \in DOMAIN starts |->
           SubSeq(s, starts[k],
                  IF k = Len(starts) THEN Len(s) ELSE starts[k + 1] - 1) ]

RECURSIVE SegmentThai(_, _)
SegmentThai(run, unknown) ==
   IF Len(run) = 0 THEN (IF Len(unknown) > 0 THEN << unknown >> ELSE << >>)
   ELSE LET cands == { w \in { << "U0E01", "U0E23", "U0E21" >>, << "U0E23", "U0E16" >>, << "U0E19", "U0E01" >>, << "U0E02", "U0E2D", "U0E07" >> } :
                            Len(w) <= Len(run) /\ SubSeq(run, 1, Len(w)) = w }
        IN  IF cands = {}
            THEN SegmentThai(Tail(run), Append(unknown, Head(run)))
            ELSE LET w == CHOOSE x \in cands : \A y \in cands : Len(y) <= Len(x)
                 IN  (IF Len(unknown) > 0 THEN << unknown >> ELSE << >>)
                     \o << w >>
                     \o SegmentThai(SubSeq(run, Len(w) + 1, Len(run)), << >>)

RECURSIVE FlattenSeq(_)
FlattenSeq(ss) == IF Len(ss) = 0 THEN << >> ELSE Head(ss) \o FlattenSeq(Tail(ss))

word_tokenize(text) ==
   LET Segmented(pieces) ==
          FlattenSeq([ k \in DOMAIN pieces |->
             IF TokenClass(pieces[k][1]) = "thai"
             THEN SegmentThai(pieces[k], << >>)
             ELSE << pieces[k] >> ])
   IN  Segmented(SplitByClass(text))

(***************************************************************************)
(* NLPProcessor._tokenize_text (nlp_processor.py lines 113-132)            *)
(***************************************************************************)
\* variant that keeps only the first occurrence of a token, used to test that
\* duplicates are retained
tokenize_text_first_occurrences(self, text, language) ==
   LET Kept(tokens) ==
          SelectSeq([ i \in DOMAIN tokens |-> << i, tokens[i] >> ],
                    LAMBDA p : \A j \in 1 .. p[1] - 1 : tokens[j] # p[2])
       Tokens(pairs) == [ k \in DOMAIN pairs |-> pairs[k][2] ]
       Filtered(tokens, stops, minlen) ==
          SelectSeq(tokens, LAMBDA token : token \notin stops /\ Len(token) > minlen)
   IN  IF language = "th" \/ language = "mixed"
       THEN Tokens(Kept(Filtered(word_tokenize(text), self.thai_stopwords, 1)))
       ELSE Tokens(Kept(Filtered(Runs(Lower(text), WordChars, 1),
                                 self.english_stopwords, 2)))

tokenize_text(self, text, language) ==
   IF language = "th" \/ language = "mixed"
   THEN SelectSeq(word_tokenize(text),
                  LAMBDA token : token \notin self.thai_stopwords /\ Len(token) > 1)
   ELSE SelectSeq(Runs(Lower(text), WordChars, 1),
                  LAMBDA token : token \notin self.english_stopwords /\ Len(token) > 2)

(***************************************************************************)
(* NLPProcessor._extract_entities (nlp_processor.py lines 134-154).  The   *)
(* list(set(...)) of a type is a list in hash order, which changes from    *)
(* run to run: extract_entities is the set of the results the call can     *)
(* return, one for every order of every list.                              *)
(***************************************************************************)
\* lines 145-148: the trimmed matches of the patterns of one type, pattern by
\* pattern, each pattern's matches in the order of the text
StrippedMatches(text, patterns) ==
   LET \* re.findall(pattern, s): the matched substrings
       FindAll(s, parts, icase) ==
          LET Texts(ms) == [ k \in DOMAIN ms |-> Slice(s, ms[k].start, ms[k].end) ]
          IN  Texts(FindIter(s, 1, parts, icase))
       Stripped(matches) == [ m \in DOMAIN matches |-> Strip(matches[m]) ]
   IN  FlattenSeq([ k \in DOMAIN patterns |->
                     Stripped(FindAll(text, patterns[k], FALSE)) ])

\* variant that returns the matches as they were collected, used to test that
\* no string appears twice within a type
list_of_set_keeping_duplicates(items) == { items }

\* line 152, list(set(items)): the lists this can be, the different items in
\* any order
list_of_set(items) ==
   LET RECURSIVE Orders(_)
       Orders(S) ==
          IF S = {} THEN { << >> }
          ELSE UNION { { << x >> \o rest : rest \in Orders(S \ { x }) } : x \in S }
   IN  Orders(Range(items))

extract_entities(self, text, language) ==
   LET \* lines 151-152: every list made duplicate-free
       Lists(person, organization, location, misc) ==
          { [PERSON |-> p, ORGANIZATION |-> o, LOCATION |-> l, MISC |-> m] :
              p \in list_of_set(person), o \in list_of_set(organization),
              l \in list_of_set(location), m \in list_of_set(misc) }
   IN  IF language = "th" \/ language = "mixed"
       THEN Lists(StrippedMatches(text, self.thai_entity_patterns.PERSON),
                  StrippedMatches(text, self.thai_entity_patterns.ORGANIZATION),
                  StrippedMatches(text, self.thai_entity_patterns.LOCATION), << >>)
       ELSE Lists(<< >>, << >>, << >>, << >>)

(***************************************************************************)
(* NLPProcessor._extract_keywords (nlp_processor.py lines 156-194).        *)
(* library_raises: a call inside the try block raises.                     *)
(***************************************************************************)
default_max_keywords == 10

\* variant that returns every scored feature, used to test the cut to
\* max_keywords
extract_keywords_uncut(self, text, language, max_keywords, library_raises) ==
   LET Scored(kept, tfidf_scores) ==
          [ k \in DOMAIN kept |-> [keyword |-> kept[k], score |-> tfidf_scores[kept[k]]] ]
       OfFit(fitted) ==
          IF library_raises \/ fitted.status = "raised" THEN << >>
          ELSE Scored(SortDesc(fitted.feature_names, fitted.rows[1]), fitted.rows[1])
   IN  OfFit(TfidfFitTransform(
                << IF language = "th" \/ language = "mixed"
                   THEN JoinSpace(tokenize_text(self, text, language))
                   ELSE [ i \in DOMAIN text |->
                            IF LowerChar(text[i]) \in WordChars \cup Whitespace
                            THEN LowerChar(text[i]) ELSE " " ] >>,
                StopWordsFor(language), max_keywords * 2))

extract_keywords(self, text, language, max_keywords, library_raises) ==
   LET \* lines 181-188: the scored features, best first, cut to max_keywords,
       \* zeros dropped
       Scored(kept, tfidf_scores) ==
          [ k \in DOMAIN kept |-> [keyword |-> kept[k], score |-> tfidf_scores[kept[k]]] ]
       Top(feature_names, tfidf_scores) ==
          Scored(SelectSeq(Take(SortDesc(feature_names, tfidf_scores), max_keywords),
                           LAMBDA f : tfidf_scores[f] > 0),
                 tfidf_scores)
       OfFit(fitted) ==
          IF library_raises \/ fitted.status = "raised" THEN << >>
          ELSE Top(fitted.feature_names, fitted.rows[1])
   IN  \* lines 160-167: the text handed to the vectorizer
       OfFit(TfidfFitTransform(
                << IF language = "th" \/ language = "mixed"
                   THEN JoinSpace(SelectSeq(word_tokenize(text),
                           LAMBDA token : token \notin self.thai_stopwords
                                            /\ Len(token) > 1))
                   ELSE [ i \in DOMAIN text |->
                            IF LowerChar(text[i]) \in WordChars \cup Whitespace
                            THEN LowerChar(text[i]) ELSE " " ] >>,
                StopWordsFor(language), max_keywords * 2))

(***************************************************************************)
(* NLPProcessor._extract_events (nlp_processor.py lines 196-240)           *)
(***************************************************************************)
Min(a, b) == IF a < b THEN a ELSE b
Max(a, b) == IF a > b THEN a ELSE b

extract_events(content, title, language) ==
   LET OfMatches(ms) ==
          [ k \in DOMAIN ms |->
             [event_text |-> Slice(content, ms[k].start, ms[k].end),
              context |-> Strip(Slice(content, Max(0, ms[k].start - 50),
                                      Min(Len(content), ms[k].end + 50))),
              position |-> ms[k].start,
              confidence |-> (7 * Scale) \div 10] ]
       OfPatterns(patterns) ==
          FlattenSeq([ k \in DOMAIN patterns |->
                        OfMatches(FindIter(content, 1, patterns[k], TRUE)) ])
   IN  Take(OfPatterns(IF language = "th" \/ language = "mixed"
                       THEN thai_event_patterns ELSE english_event_patterns),
            5)

(***************************************************************************)
(* dateparser.parse(date_str) (library) on the strings the date patterns   *)
(* match: D/M/YYYY and D-M-YYYY are read month first, day first when the   *)
(* first number is no month; a string that is no calendar date gives None. *)
(* A digit counts by its decimal value, as int() reads it.                 *)
(***************************************************************************)
RECURSIVE NumVal(_)
NumVal(digs) ==
   IF Len(digs) = 0 THEN 0
   ELSE 10 * NumVal(SubSeq(digs, 1, Len(digs) - 1))
        + (IF CharCode[digs[Len(digs)]] >= CharCode["U0E50"]
           THEN CharCode[digs[Len(digs)]] - CharCode["U0E50"]
           ELSE CharCode[digs[Len(digs)]] - CharCode["0"])

DaysIn(y, m) ==
   IF m = 2 THEN (IF y % 4 = 0 /\ (y % 100 # 0 \/ y % 400 = 0) THEN 29 ELSE 28)
   ELSE IF m \in { 4, 6, 9, 11 } THEN 30 ELSE 31

ValidDate(y, m, d) == y >= 1 /\ m \in 1 .. 12 /\ d >= 1 /\ d <= DaysIn(y, m)

dateparser_parse(date_str) ==
   LET \* month first, then day first, as dateparser orders an ambiguous numeric date
       OfNumbers(a, b, y) ==
          IF ValidDate(y, a, b) THEN DateTime(y, a, b, 0)
          ELSE IF ValidDate(y, b, a) THEN DateTime(y, b, a, 0)
          ELSE NoneValue
       \* an ISO 8601 date-time, YYYY-MM-DDThh:mm:ss, alone or followed by an
       \* offset +hh:mm or -hh:mm; the model keeps times and offsets to the hour
       IsoLayout ==
          /\ Len(date_str) \in { 19, 25 }
          /\ date_str[5] = "-" /\ date_str[8] = "-" /\ date_str[11] = "T"
          /\ date_str[14] = ":" /\ date_str[17] = ":"
          /\ Len(date_str) = 25 => (date_str[20] \in { "+", "-" } /\ date_str[23] = ":")
       OfIso(nums) ==
          IF ~ ValidDate(NumVal(nums[1]), NumVal(nums[2]), NumVal(nums[3]))
             \/ NumVal(nums[4]) > 23
          THEN NoneValue
          ELSE IF Len(nums) = 6
          THEN DateTime(NumVal(nums[1]), NumVal(nums[2]), NumVal(nums[3]), NumVal(nums[4]))
          ELSE [DateTime(NumVal(nums[1]), NumVal(nums[2]), NumVal(nums[3]),
                         NumVal(nums[4]))
                   EXCEPT !.aware = TRUE,
                          !.off = IF date_str[20] = "-" THEN 0 - NumVal(nums[7])
                                  ELSE NumVal(nums[7])]
       OfFields(nums) ==
          IF Len(nums) = 3 THEN OfNumbers(NumVal(nums[1]), NumVal(nums[2]), NumVal(nums[3]))
          ELSE IF IsoLayout /\ Len(nums) = (IF Len(date_str) = 19 THEN 6 ELSE 8)
          THEN OfIso(nums)
          ELSE NoneValue
   IN  OfFields(Runs(date_str, Digits, 1))

extract_dates_from_text(text) ==
   LET Entry(date_str, position) ==
          [date_string |-> date_str, parsed_date |-> dateparser_parse(date_str),
           position |-> position]
       OfMatches(ms) ==
          SelectSeq([ k \in DOMAIN ms |->
                       Entry(Slice(text, ms[k].start, ms[k].end), ms[k].start) ],
                    LAMBDA e : ~ IsNone(e.parsed_date))
   IN  FlattenSeq([ k \in DOMAIN thai_date_patterns |->
                     OfMatches(FindIter(text, 1, thai_date_patterns[k], FALSE)) ])

(***************************************************************************)
(* NLPProcessor.process_article (nlp_processor.py lines 54-99).            *)
(* throws: the sub-extractors in which a library call (re, pythainlp,      *)
(* sklearn, dateparser) raises on this input.  Only _extract_keywords has  *)
(* a try/except; an exception of any other sub-extractor leaves            *)
(* process_article.  process_article is the set of the outcomes the call   *)
(* can have, one for every result of _extract_entities.  An outcome        *)
(* carries, beside the returned dict or the error, the caller's dict       *)
(* (article_data) and the attributes of the processor (self) as the call   *)
(* leaves them.                                                            *)
(***************************************************************************)
Extractors == { "language", "tokens", "entities", "keywords", "events", "dates" }

Raised(error) == [status |-> "raised", error |-> error]
Returned(value) == [status |-> "ok", value |-> value]

\* lines 64-84 and 88-96: the NLP results of the call, read from the
\* attributes of self; no statement of the method or of a sub-extractor
\* assigns to an attribute of self
nlp_results(self, article_data, throws) ==
   LET Results(content, language, tokens, entities) ==
          [language |-> language,
           tokens |-> tokens,
           entities |-> entities,
           keywords |-> extract_keywords(self, content, language, default_max_keywords,
                                         "keywords" \in throws),
           events |-> extract_events(content, Get(article_data, "title", << >>), language),
           content_dates |-> extract_dates_from_text(content),
           processed_at |-> UtcNow,
           word_count |-> Len(tokens),
           sentence_count |-> CountIn(content, SentenceEnd) + 1]
       Enriched(content, language) ==
          { Returned(Results(content, language, tokenize_text(self, content, language),
                             entities)) :
              entities \in extract_entities(self, content, language) }
   IN  IF "language" \in throws THEN { Raised("language") }
       ELSE IF "tokens" \in throws THEN { Raised("tokens") }
       ELSE IF "entities" \in throws THEN { Raised("entities") }
       ELSE IF "events" \in throws THEN { Raised("events") }
       ELSE IF "dates" \in throws THEN { Raised("dates") }
       ELSE Enriched(Get(article_data, "content", << >>),
                     detect_language(Get(article_data, "content", << >>)))

\* variant without the copy of line 86: processed_article names the caller's
\* dict, used to test that the record handed in is left as it was
process_article_without_copy(self, article_data, throws) ==
   LET Call(results) ==
          LET before == [caller |-> article_data]
              processed_article == "caller"
              updated == [before EXCEPT ![processed_article] = results.value @@ @]
          IN  IF results.status = "raised"
              THEN [status |-> "raised", error |-> results.error,
                    article_data |-> before.caller, self |-> self]
              ELSE [status |-> "ok", value |-> updated[processed_article],
                    article_data |-> updated.caller, self |-> self]
   IN  { Call(results) : results \in nlp_results(self, article_data, throws) }

process_article(self, article_data, throws) ==
   LET \* the dicts of the call, each under the name of the object: the
       \* caller's dict; from line 86 on its copy, a new dict with the same
       \* items, which processed_article refers to; lines 87-97 write the
       \* results into the dict processed_article refers to
       Call(results) ==
          LET before == [caller |-> article_data]
              copied == [copy |-> before.caller] @@ before
              processed_article == "copy"
              updated == [copied EXCEPT ![processed_article] = results.value @@ @]
          IN  IF results.status = "raised"
              THEN [status |-> "raised", error |-> results.error,
                    article_data |-> before.caller, self |-> self]
              ELSE [status |-> "ok", value |-> updated[processed_article],
                    article_data |-> updated.caller, self |-> self]
   IN  { Call(results) : results \in nlp_results(self, article_data, throws) }

(***************************************************************************)
(* SimilarityAnalyzer.__init__ (similarity_analyzer.py lines 13-28)        *)
(***************************************************************************)
\* self.sentiment_keywords (similarity_analyzer.py lines 15-28)
sentiment_keywords ==
   [
    positive |-> [
       th |->
      <<
         << "U0E14", "U0E35" >>, << "U0E2A", "U0E33", "U0E40", "U0E23", "U0E47", "U0E08" >>,
         << "U0E1B", "U0E23", "U0E30", "U0E2A", "U0E1A", "U0E1C", "U0E25", "U0E2A", "U0E33", "U0E40", "U0E23", "U0E47", "U0E08" >>,
         << "U0E01", "U0E49", "U0E32", "U0E27", "U0E2B", "U0E19", "U0E49", "U0E32" >>,
         << "U0E1E", "U0E31", "U0E12", "U0E19", "U0E32" >>,
         << "U0E40", "U0E08", "U0E23", "U0E34", "U0E0D" >>,
         << "U0E22", "U0E34", "U0E19", "U0E14", "U0E35" >>,
         << "U0E0A", "U0E37", "U0E48", "U0E19", "U0E0A", "U0E21" >> >>,
       en |->
      <<
         << "g", "o", "o", "d" >>, << "g", "r", "e", "a", "t" >>,
         << "e", "x", "c", "e", "l", "l", "e", "n", "t" >>,
         << "s", "u", "c", "c", "e", "s", "s", "f", "u", "l" >>,
         << "p", "o", "s", "i", "t", "i", "v", "e" >>,
         << "p", "r", "o", "g", "r", "e", "s", "s" >>,
         << "d", "e", "v", "e", "l", "o", "p", "m", "e", "n", "t" >>,
         << "a", "c", "h", "i", "e", "v", "e", "m", "e", "n", "t" >> >> ],
    negative |-> [
       th |->
      <<
         << "U0E41", "U0E22", "U0E48" >>,
         << "U0E25", "U0E49", "U0E21", "U0E40", "U0E2B", "U0E25", "U0E27" >>,
         << "U0E40", "U0E2A", "U0E35", "U0E22", "U0E2B", "U0E32", "U0E22" >>,
         << "U0E27", "U0E34", "U0E01", "U0E24", "U0E15" >>,
         << "U0E1B", "U0E31", "U0E0D", "U0E2B", "U0E32" >>,
         << "U0E2D", "U0E31", "U0E19", "U0E15", "U0E23", "U0E32", "U0E22" >>,
         << "U0E40", "U0E2A", "U0E35", "U0E22", "U0E43", "U0E08" >>,
         << "U0E42", "U0E01", "U0E23", "U0E18" >> >>,
       en |->
      <<
         << "b", "a", "d" >>, << "t", "e", "r", "r", "i", "b", "l", "e" >>,
         << "f", "a", "i", "l", "e", "d" >>, << "c", "r", "i", "s", "i", "s" >>,
         << "p", "r", "o", "b", "l", "e", "m" >>, << "d", "a", "n", "g", "e", "r" >>,
         << "s", "a", "d" >>, << "a", "n", "g", "r", "y" >>,
         << "n", "e", "g", "a", "t", "i", "v", "e" >> >> ],
    neutral |-> [
       th |->
      <<
         << "U0E1B", "U0E01", "U0E15", "U0E34" >>,
         << "U0E18", "U0E23", "U0E23", "U0E21", "U0E14", "U0E32" >>,
         << "U0E40", "U0E09", "U0E22", "U0E46" >>, << "U0E04", "U0E07", "U0E17", "U0E35", "U0E48" >> >>,
       en |->
      <<
         << "n", "o", "r", "m", "a", "l" >>, << "o", "r", "d", "i", "n", "a", "r", "y" >>,
         << "n", "e", "u", "t", "r", "a", "l" >>, << "s", "t", "a", "b", "l", "e" >>,
         << "u", "n", "c", "h", "a", "n", "g", "e", "d" >> >> ] ]

(***************************************************************************)
(* SimilarityAnalyzer._preprocess_text (similarity_analyzer.py 309-319)    *)
(***************************************************************************)
\* re.sub(r'\s+', ' ', text)
CollapseWhitespace(s) ==
   LET Collapsed(kept) ==
          [ k \in DOMAIN kept |-> IF s[kept[k]] \in Whitespace THEN " " ELSE s[kept[k]] ]
   IN  Collapsed(SelectSeq([ i \in 1..Len(s) |-> i ],
                           LAMBDA i : s[i] \notin Whitespace
                                        \/ i = 1 \/ s[i - 1] \notin Whitespace))

preprocess_text(text, language) ==
   LET \* re.sub(r'[^\w\s]', ' ', t)
       RemovePunctuation(t) ==
          [ i \in DOMAIN t |-> IF t[i] \in WordChars \cup Whitespace THEN t[i] ELSE " " ]
   IN  IF Len(text) = 0 THEN << >>
       ELSE Strip(Lower(RemovePunctuation(CollapseWhitespace(text))))

(***************************************************************************)
(* SimilarityAnalyzer._calculate_content_similarity (lines 97-126)         *)
(***************************************************************************)
content_max_features == 1000

\* variant that scores equal cleaned contents 1.0 without vectorizing them, used
\* to test the cases of a zero content similarity
calculate_content_similarity_equal_first(content1, content2, language) ==
   LET OfFit(tfidf_matrix) ==
          IF tfidf_matrix.status = "raised" THEN 0
          ELSE cosine_similarity(tfidf_matrix.rows[1], tfidf_matrix.rows[2])
       OfProcessed(processed_content1, processed_content2) ==
          IF Len(processed_content1) = 0 \/ Len(processed_content2) = 0 THEN 0
          ELSE IF processed_content1 = processed_content2 THEN Scale
          ELSE OfFit(TfidfFitTransform(<< processed_content1, processed_content2 >>,
                                       StopWordsFor(language), content_max_features))
   IN  IF Len(content1) = 0 \/ Len(content2) = 0 THEN 0
       ELSE OfProcessed(preprocess_text(content1, language),
                        preprocess_text(content2, language))

calculate_content_similarity(content1, content2, language) ==
   LET OfFit(tfidf_matrix) ==
          IF tfidf_matrix.status = "raised" THEN 0
          ELSE cosine_similarity(tfidf_matrix.rows[1], tfidf_matrix.rows[2])
       OfProcessed(processed_content1, processed_content2) ==
          IF Len(processed_content1) = 0 \/ Len(processed_content2) = 0 THEN 0
          ELSE OfFit(TfidfFitTransform(<< processed_content1, processed_content2 >>,
                                       StopWordsFor(language), content_max_features))
   IN  IF Len(content1) = 0 \/ Len(content2) = 0 THEN 0
       ELSE OfProcessed(preprocess_text(content1, language),
                        preprocess_text(content2, language))

(***************************************************************************)
(* SimilarityAnalyzer._compare_entities (lines 128-170).  The types are    *)
(* visited in the hash order of a set and each list is extended with sets  *)
(* in hash order: common_entities and the two lists of different_entities  *)
(* are given as bags, the entries of the list without their order.  On an  *)
(* argument that is a list, line 130 (entities1.keys()) raises.            *)
(***************************************************************************)
\* variant that counts the distinct strings over all types, used to test the
\* Dice coefficient
TotalEntities_distinct_strings(entities) ==
   Cardinality(UNION { Range(entities[t]) : t \in DOMAIN entities })

\* lines 155-156: sum(len(entities) for entities in entities.values())
TotalEntities(entities) ==
   SumFn([ t \in DOMAIN entities |-> Len(entities[t]) ], DOMAIN entities)

compare_entities(entities1, entities2) ==
   LET all_entity_types == DOMAIN entities1 \cup DOMAIN entities2
       entities_1(t) == Range(Get(entities1, t, << >>))
       entities_2(t) == Range(Get(entities2, t, << >>))
       \* a list extended with list(found(entity_type)) for every type
       Extended(found(_)) ==
          [ e \in UNION { found(t) : t \in all_entity_types } |->
              Cardinality({ t \in all_entity_types : e \in found(t) }) ]
       Comparison(common_entities, only_1, only_2, total_entities) ==
          [common_entities |-> common_entities,
           different_entities |-> [article1 |-> only_1, article2 |-> only_2],
           similarity |-> IF total_entities > 0
                          THEN (2 * BagCardinality(common_entities) * Scale)
                                  \div total_entities
                          ELSE 0,
           total_common |-> BagCardinality(common_entities),
           total_different_1 |-> BagCardinality(only_1),
           total_different_2 |-> BagCardinality(only_2)]
   IN  IF IsList(entities1) \/ IsList(entities2) THEN Raised("AttributeError")
       ELSE Returned(
               Comparison(Extended(LAMBDA t : entities_1(t) \cap entities_2(t)),
                          Extended(LAMBDA t : entities_1(t) \ entities_2(t)),
                          Extended(LAMBDA t : entities_2(t) \ entities_1(t)),
                          TotalEntities(entities1) + TotalEntities(entities2)))

(***************************************************************************)
(* SimilarityAnalyzer._compare_keywords (lines 172-215).  An entry of a    *)
(* keyword list is a dict {keyword, score}, as _extract_keywords builds    *)
(* it, or a plain string, written [kind |-> "str", value |-> text].        *)
(* common_keywords and the two lists of different_keywords are lists in    *)
(* the hash order of a set: they are given as sets.                        *)
(***************************************************************************)
\* lines 180-183: kw.get('keyword', '') for a dict, str(kw) for a string
KeywordString(kw) ==
   IF "kind" \in DOMAIN kw THEN kw.value ELSE Get(kw, "keyword", << >>)

\* variant that keeps blank keyword strings, used to test that only the
\* non-blank strings count
KeywordStrings_with_blanks(keywords) ==
   { KeywordString(keywords[k]) : k \in DOMAIN keywords }

KeywordStrings(keywords) ==
   { kw \in { KeywordString(keywords[k]) : k \in DOMAIN keywords } :
        Len(Strip(kw)) > 0 }

compare_keywords(keywords1, keywords2) ==
   LET Comparison(common_keywords, only_1, only_2, total_keywords) ==
          [common_keywords |-> common_keywords,
           different_keywords |-> [article1 |-> only_1, article2 |-> only_2],
           similarity |-> IF total_keywords > 0
                          THEN (2 * Cardinality(common_keywords) * Scale)
                                  \div total_keywords
                          ELSE 0,
           total_common |-> Cardinality(common_keywords),
           total_different_1 |-> Cardinality(only_1),
           total_different_2 |-> Cardinality(only_2)]
       OfSets(keywords_1, keywords_2) ==
          Comparison(keywords_1 \cap keywords_2,
                     keywords_1 \ keywords_2,
                     keywords_2 \ keywords_1,
                     Cardinality(keywords_1) + Cardinality(keywords_2))
   IN  OfSets(KeywordStrings(keywords1), KeywordStrings(keywords2))

(***************************************************************************)
(* SimilarityAnalyzer._analyze_sentiment (lines 232-262)                   *)
(***************************************************************************)
\* \b between positions p - 1 and p
Boundary(s, p) ==
   LET IsWordAt(q) == q >= 1 /\ q <= Len(s) /\ s[q] \in WordChars
   IN  IsWordAt(p - 1) # IsWordAt(p)

\* len(re.findall(r'\b' + re.escape(keyword) + r'\b', s))
RECURSIVE CountWholeFrom(_, _, _)
CountWholeFrom(s, keyword, i) ==
   LET Matches == { p \in i..(Len(s) - Len(keyword) + 1) :
                      /\ SubSeq(s, p, p + Len(keyword) - 1) = keyword
                      /\ Boundary(s, p)
                      /\ Boundary(s, p + Len(keyword)) }
       After(p) == 1 + CountWholeFrom(s, keyword, p + Len(keyword))
   IN  IF Matches = {} THEN 0
       ELSE After(CHOOSE p \in Matches : \A q \in Matches : p <= q)

CountKeywords(content_lower, keywords) ==
   SumFn([ k \in DOMAIN keywords |-> CountWholeFrom(content_lower, Lower(keywords[k]), 1) ],
         DOMAIN keywords)

analyze_sentiment(content, language) ==
   LET OfCounts(positive_count, negative_count, neutral_count, total_sentiment_words) ==
          IF total_sentiment_words = 0
          THEN [positive |-> (3 * Scale) \div 10,
                neutral |-> (4 * Scale) \div 10,
                negative |-> (3 * Scale) \div 10]
          ELSE [positive |-> (positive_count * Scale) \div total_sentiment_words,
                neutral |-> (neutral_count * Scale) \div total_sentiment_words,
                negative |-> (negative_count * Scale) \div total_sentiment_words]
       OfThree(positive_count, negative_count, neutral_count) ==
          OfCounts(positive_count, negative_count, neutral_count,
                   positive_count + negative_count + neutral_count)
       OfLower(content_lower) ==
          OfThree(CountKeywords(content_lower, sentiment_keywords.positive[language]),
                  CountKeywords(content_lower, sentiment_keywords.negative[language]),
                  CountKeywords(content_lower, sentiment_keywords.neutral[language]))
   IN  IF Len(content) = 0
       THEN Returned([positive |-> 0, neutral |-> Scale, negative |-> 0])
       ELSE IF language \notin DOMAIN sentiment_keywords.positive
       THEN Raised("KeyError")
       ELSE Returned(OfLower(Lower(content)))

(***************************************************************************)
(* SimilarityAnalyzer._analyze_sentiment_comparison (lines 217-230)        *)
(***************************************************************************)
Abs(x) == IF x < 0 THEN 0 - x ELSE x

analyze_sentiment_comparison(content1, content2, language) ==
   LET Comparison(sentiment1, sentiment2) ==
          IF sentiment1.status = "raised" THEN sentiment1
          ELSE IF sentiment2.status = "raised" THEN sentiment2
          ELSE Returned(
                 [article1 |-> sentiment1.value,
                  article2 |-> sentiment2.value,
                  sentiment_difference |->
                     [positive |-> Abs(sentiment1.value.positive
                                       - sentiment2.value.positive),
                      neutral |-> Abs(sentiment1.value.neutral
                                      - sentiment2.value.neutral),
                      negative |-> Abs(sentiment1.value.negative
                                       - sentiment2.value.negative)]])
   IN  Comparison(analyze_sentiment(content1, language),
                  analyze_sentiment(content2, language))

(***************************************************************************)
(* SimilarityAnalyzer._split_sentences (lines 298-307)                     *)
(***************************************************************************)
\* re.split on single terminators: the pieces between them, empty ones too
SplitOn(s, class) ==
   LET Pieces(ends) ==
          [ k \in 1..(Len(ends) + 1) |->
             SubSeq(s, IF k = 1 THEN 1 ELSE ends[k - 1] + 1,
                       IF k > Len(ends) THEN Len(s) ELSE ends[k] - 1) ]
   IN  Pieces(SelectSeq([ i \in 1..Len(s) |-> i ], LAMBDA i : s[i] \in class))

\* re.split on runs of terminators
SplitOnRuns(s, class) ==
   LET \* the pieces between the runs, given where the runs end and begin
       Pieces(run_ends, run_starts) ==
          [ k \in 1..(Len(run_starts) + 1) |->
             SubSeq(s, IF k = 1 THEN 1 ELSE run_ends[k - 1] + 1,
                       IF k > Len(run_starts) THEN Len(s) ELSE run_starts[k] - 1) ]
   IN  Pieces(SelectSeq([ i \in 1..Len(s) |-> i ],
                        LAMBDA i : s[i] \in class /\ (i = Len(s) \/ s[i + 1] \notin class)),
              SelectSeq([ i \in 1..Len(s) |-> i ],
                        LAMBDA i : s[i] \in class /\ (i = 1 \/ s[i - 1] \notin class)))

split_sentences(content, language) ==
   LET Stripped(kept) == [ k \in DOMAIN kept |-> Strip(kept[k]) ]
   IN  Stripped(SelectSeq(IF language = "th" THEN SplitOn(content, SentenceEnd)
                          ELSE SplitOnRuns(content, SentenceEnd),
                          LAMBDA x : Len(Strip(x)) > 10))

(***************************************************************************)
(* SimilarityAnalyzer._find_content_differences (lines 264-296).           *)
(* list(set)[:5] takes the first five sentences of the set in hash order,  *)
(* which changes from run to run: find_content_differences is the set of   *)
(* the lists the call can return, one for every five sentences of a side   *)
(* in every order.                                                         *)
(***************************************************************************)
FirstFiveChoices(S) ==
   LET RECURSIVE Arranged(_, _)
       Arranged(rest, n) ==
          IF n = 0 \/ rest = {} THEN { << >> }
          ELSE UNION { { << x >> \o others : others \in Arranged(rest \ { x }, n - 1) } :
                       x \in rest }
   IN  Arranged(S, 5)

\* variant that compares the sentences position by position, used to test
\* that only the sets of sentences count
find_content_differences_by_position(content1, content2, language) ==
   LET Removed(sentences1, sentences2) ==
          SelectSeq([ k \in DOMAIN sentences1 |->
                       IF k \in DOMAIN sentences2 /\ sentences2[k] = sentences1[k]
                       THEN [type |-> "removed", text |-> << >>, article |-> 1]
                       ELSE [type |-> "removed", text |-> sentences1[k], article |-> 1] ],
                    LAMBDA entry : Len(entry.text) > 30)
   IN  { Removed(split_sentences(content1, language),
                 split_sentences(content2, language)) }

find_content_differences(content1, content2, language) ==
   LET Differences(significant, type, article) ==
          [ k \in DOMAIN significant |->
             [type |-> type, text |-> Strip(significant[k]), article |-> article] ]
       Entries(chosen, type, article) ==
          Differences(SelectSeq(chosen, LAMBDA x : Len(Strip(x)) > 30),
                      type, article)
       OfSets(set1, set2) ==
          { Entries(c1, "removed", 1) \o Entries(c2, "added", 2) :
              c1 \in FirstFiveChoices(set1 \ set2), c2 \in FirstFiveChoices(set2 \ set1) }
   IN  OfSets(Range(split_sentences(content1, language)),
              Range(split_sentences(content2, language)))

(***************************************************************************)
(* SimilarityAnalyzer._calculate_overall_similarity (lines 321-335)        *)
(***************************************************************************)
\* variant with equal weights and no clamp, used to test the weighted-sum property
calculate_overall_similarity_equal_weights(content_sim, entity_sim, keyword_sim) ==
   content_sim + entity_sim + keyword_sim

calculate_overall_similarity(content_sim, entity_sim, keyword_sim) ==
   LET overall == (content_sim * 5 + entity_sim * 3 + keyword_sim * 2) \div 10
   IN  Min(Max(overall, 0), Scale)

(***************************************************************************)
(* SimilarityAnalyzer.compare_articles (lines 30-95).  content_differences *)
(* is one of the outcomes of _find_content_differences.  An exception of   *)
(* _compare_entities or of _analyze_sentiment is not caught.               *)
(***************************************************************************)
compare_articles(article1, article2, content_differences) ==
   LET Result(content_similarity, entity_comparison, keyword_comparison,
              sentiment_analysis) ==
          IF entity_comparison.status = "raised" THEN entity_comparison
          ELSE IF sentiment_analysis.status = "raised" THEN sentiment_analysis
          ELSE Returned(
                 [similarity_score |->
                     calculate_overall_similarity(content_similarity,
                                                  entity_comparison.value.similarity,
                                                  keyword_comparison.similarity),
                  content_similarity |-> content_similarity,
                  entity_comparison |-> entity_comparison.value,
                  keyword_comparison |-> keyword_comparison,
                  sentiment_analysis |-> sentiment_analysis.value,
                  content_differences |-> content_differences,
                  comparison_metadata |->
                     [compared_at |-> UtcNow,
                      article1_id |-> Get(article1, "_id", NoneValue),
                      article2_id |-> Get(article2, "_id", NoneValue),
                      article1_source |-> Get(article1, "source", NoneValue),
                      article2_source |-> Get(article2, "source", NoneValue)]])
   IN  Result(
          calculate_content_similarity(Get(article1, "content", << >>),
                                       Get(article2, "content", << >>),
                                       Get(article1, "language", "th")),
          compare_entities(Get(article1, "entities", << >>),
                           Get(article2, "entities", << >>)),
          compare_keywords(Get(article1, "keywords", << >>),
                           Get(article2, "keywords", << >>)),
          analyze_sentiment_comparison(Get(article1, "content", << >>),
                                       Get(article2, "content", << >>),
                                       Get(article1, "language", "th")))

(***************************************************************************)
(* SimilarityAnalyzer.compare_multiple_articles (lines 337-377).           *)
(* differences[k] is the outcome of _find_content_differences in the k-th  *)
(* pairwise comparison.  Indices are 0-based as in the source.             *)
(***************************************************************************)
\* the index pairs (i, j), i < j, in the order the two loops visit them
\* variant that also pairs every article with itself, used to test that each
\* unordered pair of different articles is compared once
PairsOf_with_self(n) ==
   FlattenSeq([ i \in 1..n |-> [ d \in 1..(n - i + 1) |-> << i, i + d - 1 >> ] ])

PairsOf(n) ==
   FlattenSeq([ i \in 1..n |-> [ d \in 1..(n - i) |-> << i, i + d >> ] ])

\* variant whose medium bucket has no upper limit, used to test the partition
\* into buckets
similarity_distribution_overlapping(similarities) ==
   LET CountWhere(in_bucket(_)) ==
          Cardinality({ k \in DOMAIN similarities : in_bucket(similarities[k]) })
   IN  [high |-> CountWhere(LAMBDA s : s * 10 > 7 * Scale),
        medium |-> CountWhere(LAMBDA s : 3 * Scale <= s * 10),
        low |-> CountWhere(LAMBDA s : s * 10 < 3 * Scale)]

\* lines 370-374
similarity_distribution(similarities) ==
   LET CountWhere(in_bucket(_)) ==
          Cardinality({ k \in DOMAIN similarities : in_bucket(similarities[k]) })
   IN  [high |-> CountWhere(LAMBDA s : s * 10 > 7 * Scale),
        medium |-> CountWhere(LAMBDA s : 3 * Scale <= s * 10 /\ s * 10 <= 7 * Scale),
        low |-> CountWhere(LAMBDA s : s * 10 < 3 * Scale)]

\* lines 342-377: the pairwise comparisons and their summaries; np.argmax of an
\* empty list raises ValueError.  A score is a float, which the model has in
\* 1/Scale within FloatTol.  It has the float itself where the three
\* similarities are 0.0 or 1.0: the entity and the keyword similarity 0 or
\* Scale, the content similarity 0 or that of two contents with one and the
\* same feature.  Where it has not, a score within FloatTol of a limit of the
\* buckets lies on either side of it, and of two scores within FloatTol of
\* each other either is the greater.
PairwiseComparisons(articles, differences) ==
   LET OneFeature(article1, article2) ==
          LET Features(article) ==
                 Range(Analyze(preprocess_text(Get(article, "content", << >>),
                                               Get(article1, "language", "th")),
                               StopWordsFor(Get(article1, "language", "th"))))
          IN  /\ Cardinality(Features(article1)) = 1
              /\ Features(article1) = Features(article2)
       Exact(pair, comparison) ==
          /\ \/ comparison.content_similarity = 0
             \/ OneFeature(articles[pair[1]], articles[pair[2]])
          /\ comparison.entity_comparison.similarity \in { 0, Scale }
          /\ comparison.keyword_comparison.similarity \in { 0, Scale }
       \* np.argmax / np.argmin: the first index of the greatest / least float
       ArgBest(pairs, similarities, exact, better(_, _)) ==
          LET SameArticles(k, m) ==
                 /\ articles[pairs[k][1]] = articles[pairs[m][1]]
                 /\ articles[pairs[k][2]] = articles[pairs[m][2]]
              Before(m, k) ==
                 IF SameArticles(k, m) \/ (exact[k] /\ exact[m])
                 THEN \/ better(similarities[m], similarities[k])
                      \/ similarities[m] = similarities[k] /\ m < k
                 ELSE /\ better(similarities[m] - FloatTol, similarities[k])
                      /\ better(similarities[m] + FloatTol, similarities[k])
          IN  { k \in DOMAIN similarities :
                  \A m \in DOMAIN similarities \ { k } : ~ Before(m, k) }
       \* the floats of the scores, as far as the limits of the buckets tell
       \* them apart
       Floats(similarities, exact) ==
          LET Near(s, limit) == Abs(s * 10 - limit * Scale) <= 10 * FloatTol
              Sides(k) ==
                 IF exact[k] THEN { similarities[k] }
                 ELSE IF Near(similarities[k], 3)
                 THEN { (3 * Scale) \div 10 - 1, (3 * Scale) \div 10 }
                 ELSE IF Near(similarities[k], 7)
                 THEN { (7 * Scale) \div 10, (7 * Scale) \div 10 + 1 }
                 ELSE { similarities[k] }
              RECURSIVE UpTo(_)
              UpTo(n) ==
                 IF n = 0 THEN { << >> }
                 ELSE { Append(floats, float) :
                           floats \in UpTo(n - 1), float \in Sides(n) }
          IN  UpTo(Len(similarities))
       SimilarityMatrix(pairs, similarities) ==
          [ i \in 1..Len(articles) |-> [ j \in 1..Len(articles) |->
             IF \E k \in DOMAIN pairs : pairs[k] \in { << i, j >>, << j, i >> }
             THEN similarities[CHOOSE k \in DOMAIN pairs :
                                  pairs[k] \in { << i, j >>, << j, i >> }]
             ELSE 0 ] ]
       Summary(pairs, comparisons, similarities, most_similar, most_different,
               floats) ==
          [comparisons |-> comparisons,
           similarity_matrix |-> SimilarityMatrix(pairs, similarities),
           most_similar_pair |-> comparisons[most_similar],
           most_different_pair |-> comparisons[most_different],
           average_similarity |->
              SumFn(similarities, DOMAIN similarities) \div Len(similarities),
           similarity_distribution |-> similarity_distribution(floats)]
       Summaries(pairs, comparisons, similarities, exact) ==
          { Returned(Summary(pairs, comparisons, similarities, most_similar,
                             most_different, floats)) :
               most_similar \in ArgBest(pairs, similarities, exact, LAMBDA a, b : a > b),
               most_different \in ArgBest(pairs, similarities, exact, LAMBDA a, b : a < b),
               floats \in Floats(similarities, exact) }
       Collected(pairs, comparisons) ==
          Summaries(pairs, comparisons,
                    [ k \in DOMAIN comparisons |-> comparisons[k].similarity_score ],
                    [ k \in DOMAIN comparisons |->
                        Exact(pairs[k], comparisons[k].comparison) ])
       \* lines 345-357: an exception of compare_articles ends the loops
       OfOutcomes(pairs, outcomes) ==
          IF Len(pairs) = 0 THEN { Raised("ValueError") }
          ELSE IF \E k \in DOMAIN outcomes : outcomes[k].status = "raised"
          THEN { outcomes[CHOOSE k \in DOMAIN outcomes :
                             /\ outcomes[k].status = "raised"
                             /\ \A m \in 1..(k - 1) : outcomes[m].status = "ok"] }
          ELSE Collected(pairs,
                  [ k \in DOMAIN pairs |->
                     [article1_index |-> pairs[k][1] - 1,
                      article2_index |-> pairs[k][2] - 1,
                      similarity_score |-> outcomes[k].value.similarity_score,
                      comparison |-> outcomes[k].value] ])
       OfPairs(pairs) ==
          OfOutcomes(pairs,
             [ k \in DOMAIN pairs |->
                compare_articles(articles[pairs[k][1]], articles[pairs[k][2]],
                                 differences[k]) ])
   IN  OfPairs(PairsOf(Len(articles)))

\* variant without the test on the number of articles, used to test the
\* structured error result
compare_multiple_articles_unguarded(articles, differences) ==
   PairwiseComparisons(articles, differences)

\* the outcomes of compare_multiple_articles
compare_multiple_articles(articles, differences) ==
   IF Len(articles) < 2
   THEN { Returned([error |-> << "N", "e", "e", "d", " ", "a", "t", " ", "l", "e", "a", "s", "t", " ", "2", " ", "a", "r", "t", "i", "c", "l", "e", "s", " ", "f", "o", "r", " ", "c", "o", "m", "p", "a", "r", "i", "s", "o", "n" >>]) }
   ELSE PairwiseComparisons(articles, differences)

(***************************************************************************)
(* TimelineGenerator.__init__ (timeline_generator.py lines 10-30)          *)
(***************************************************************************)
\* self.event_weight_factors, in tenths
event_weight_factors ==
   [entities_count |-> 3, keywords_count |-> 2, content_length |-> 2,
    source_credibility |-> 3]

\* self.source_credibility (timeline_generator.py lines 19-30), in 1/Scale
source_credibility ==
   (<< "B", "a", "n", "g", "k", "o", "k", " ", "P", "o", "s", "t" >> :> (900 * Scale) \div 1000)
   @@ (<< "T", "h", "e", " ", "N", "a", "t", "i", "o", "n", " ", "T", "h", "a", "i", "l", "a", "n", "d" >> :> (900 * Scale) \div 1000)
   @@ (<< "T", "h", "a", "i", " ", "P", "B", "S" >> :> (950 * Scale) \div 1000)
   @@ (<< "T", "h", "a", "i", "r", "a", "t", "h" >> :> (800 * Scale) \div 1000)
   @@ (<< "K", "h", "a", "o", "s", "o", "d" >> :> (800 * Scale) \div 1000)
   @@ (<< "M", "a", "t", "i", "c", "h", "o", "n" >> :> (850 * Scale) \div 1000)
   @@ (<< "M", "a", "n", "a", "g", "e", "r" >> :> (700 * Scale) \div 1000)
   @@ (<< "S", "a", "n", "o", "o", "k" >> :> (600 * Scale) \div 1000)
   @@ (<< "K", "a", "p", "o", "o", "k" >> :> (600 * Scale) \div 1000)
   @@ (<< "D", "a", "i", "l", "y", " ", "N", "e", "w", "s" >> :> (700 * Scale) \div 1000)

(***************************************************************************)
(* datetime: ordering and strftime('%Y-%m-%d').                            *)
(***************************************************************************)
RECURSIVE DaysBeforeMonth(_, _)
DaysBeforeMonth(y, m) == IF m <= 1 THEN 0 ELSE DaysIn(y, m - 1) + DaysBeforeMonth(y, m - 1)

\* the moment compared by <: local time for a naive value, UTC for an aware one
InstantHours(dt) ==
   LET \* date.toordinal()
       ToOrdinal(y, m, d) ==
          (y - 1) * 365 + (y - 1) \div 4 - (y - 1) \div 100 + (y - 1) \div 400
          + DaysBeforeMonth(y, m) + d
   IN  ToOrdinal(dt.y, dt.m, dt.d) * 24 + dt.h - dt.off

\* decimal digits of n >= 0, at least width of them
RECURSIVE Str(_, _)
Str(n, width) ==
   LET DigitChar(d) == CharOrder[CharCode["0"] + d]
   IN  IF n < 10 /\ width <= 1 THEN << DigitChar(n) >>
       ELSE Str(n \div 10, width - 1) \o << DigitChar(n % 10) >>

\* %Y is the year as the C library prints it, without leading zeros
strftime_ymd(dt) == Str(dt.y, 1) \o << "-" >> \o Str(dt.m, 2) \o << "-" >> \o Str(dt.d, 2)

\* sorted(seq, key=...): stable, ascending in key[e]
RECURSIVE InsertAsc(_, _, _)
InsertAsc(sorted, e, key) ==
   IF Len(sorted) = 0 THEN << e >>
   ELSE IF key[Head(sorted)] <= key[e]
        THEN << Head(sorted) >> \o InsertAsc(Tail(sorted), e, key)
        ELSE << e >> \o sorted

RECURSIVE SortAsc(_, _)
SortAsc(seq, key) ==
   IF Len(seq) = 0 THEN << >>
   ELSE InsertAsc(SortAsc(SubSeq(seq, 1, Len(seq) - 1), key), seq[Len(seq)], key)

(***************************************************************************)
(* TimelineGenerator._filter_and_sort_articles (lines 66-88).  The loop    *)
(* stores timeline_date in the caller's article dicts; sorted() raises     *)
(* TypeError when it compares a naive with an aware datetime.  The result  *)
(* gives the caller's list after the loop and the sorted articles as       *)
(* positions in that list.                                                 *)
(***************************************************************************)
Truthy(v) == ~ IsNone(v)

\* variant that prefers the scrape timestamp, used to test the date-priority property
ResolveDate_scraped_first(article) ==
   IF Truthy(Get(article, "scraped_at", NoneValue))
   THEN article["scraped_at"]
   ELSE IF Len(Get(article, "content_dates", << >>)) > 0
   THEN article["content_dates"][1]["parsed_date"]
   ELSE IF Truthy(Get(article, "published_date", NoneValue))
   THEN article["published_date"]
   ELSE NoneValue

ResolveDate(article) ==
   IF Truthy(Get(article, "published_date", NoneValue))
   THEN article["published_date"]
   ELSE IF Len(Get(article, "content_dates", << >>)) > 0
   THEN article["content_dates"][1]["parsed_date"]
   ELSE IF Truthy(Get(article, "scraped_at", NoneValue))
   THEN article["scraped_at"]
   ELSE NoneValue

\* article_date: the date the loop of lines 70-85 resolves for each article
SortDated(articles, article_date) ==
   LET after == [ i \in DOMAIN articles |->
                   IF Truthy(article_date[i])
                   THEN [timeline_date |-> article_date[i]] @@ articles[i]
                   ELSE articles[i] ]
       dated_articles == SelectSeq([ i \in DOMAIN articles |-> i ],
                                   LAMBDA i : Truthy(article_date[i]))
       mixed == \E i, j \in Range(dated_articles) :
                   article_date[i].aware /\ ~ article_date[j].aware
   IN  IF mixed
       THEN [status |-> "raised", error |-> "TypeError", articles |-> after]
       ELSE [status |-> "ok", articles |-> after,
             value |-> SortAsc(dated_articles,
                               [ i \in DOMAIN articles |->
                                   IF Truthy(article_date[i])
                                   THEN InstantHours(article_date[i]) ELSE 0 ])]

\* variant that dates an article without any date by the current time, used to
\* test the exclusion of undated articles
filter_and_sort_articles_default_date(articles) ==
   SortDated(articles, [ i \in DOMAIN articles |->
                          IF Truthy(ResolveDate(articles[i]))
                          THEN ResolveDate(articles[i]) ELSE UtcNow ])

filter_and_sort_articles(articles) ==
   SortDated(articles, [ i \in DOMAIN articles |-> ResolveDate(articles[i]) ])

(***************************************************************************)
(* TimelineGenerator._group_articles_by_date (lines 90-98): the groups in  *)
(* order of first appearance, each [date, members].                        *)
(***************************************************************************)
\* variant that opens a new group for every article, used to test the grouping
\* property
AddToGroups_new_group(groups, date_key, member) ==
   Append(groups, [date |-> date_key, members |-> << member >>])

RECURSIVE AddToGroups(_, _, _)
AddToGroups(groups, date_key, member) ==
   IF Len(groups) = 0 THEN << [date |-> date_key, members |-> << member >>] >>
   ELSE IF Head(groups).date = date_key
        THEN << [date |-> date_key, members |-> Append(Head(groups).members, member)] >>
             \o Tail(groups)
        ELSE << Head(groups) >> \o AddToGroups(Tail(groups), date_key, member)

RECURSIVE GroupFrom(_, _, _)
GroupFrom(arts, dated, groups) ==
   IF Len(dated) = 0 THEN groups
   ELSE GroupFrom(arts, Tail(dated),
                  AddToGroups(groups, strftime_ymd(arts[Head(dated)]["timeline_date"]),
                              Head(dated)))

group_articles_by_date(arts, dated) == GroupFrom(arts, dated, << >>)

(***************************************************************************)
(* TimelineGenerator._calculate_event_intensity (lines 146-178), 1/Scale   *)
(***************************************************************************)
UnknownSource == << "U", "n", "k", "n", "o", "w", "n" >>

\* an article of the list has a list for its entities: line 157 (values()) and
\* lines 186 and 294 (items()) raise AttributeError on it
HasListEntities(articles) ==
   \E i \in DOMAIN articles : IsList(Get(articles[i], "entities", << >>))

\* variant without the cap at 10, used to test the range of the intensity
calculate_event_intensity_uncapped(articles) ==
   LET \* lines 154-172: the score of one article
       Score(article) ==
          LET entities == Get(article, "entities", << >>)
              entity_count == SumFn([ t \in DOMAIN entities |-> Len(entities[t]) ],
                                    DOMAIN entities)
              keyword_count == Len(Get(article, "keywords", << >>))
              content_length == Get(article, "word_count", 0)
              source == Get(article, "source", UnknownSource)
              credibility == Get(source_credibility, source, Scale \div 2)
          IN  (entity_count * Scale * event_weight_factors.entities_count) \div 10
              + (keyword_count * Scale * event_weight_factors.keywords_count) \div 10
              + (Min(content_length, 1000) * event_weight_factors.content_length * Scale)
                   \div 10000
              + (credibility * event_weight_factors.source_credibility) \div 10
   IN  IF Len(articles) = 0 THEN 0
       ELSE (SumFn([ i \in DOMAIN articles |-> Score(articles[i]) ],
                   DOMAIN articles) \div Len(articles)) * 2

calculate_event_intensity(articles) ==
   LET \* lines 154-172: the score of one article
       Score(article) ==
          LET entities == Get(article, "entities", << >>)
              entity_count == SumFn([ t \in DOMAIN entities |-> Len(entities[t]) ],
                                    DOMAIN entities)
              keyword_count == Len(Get(article, "keywords", << >>))
              content_length == Get(article, "word_count", 0)
              source == Get(article, "source", UnknownSource)
              credibility == Get(source_credibility, source, Scale \div 2)
          IN  (entity_count * Scale * event_weight_factors.entities_count) \div 10
              + (keyword_count * Scale * event_weight_factors.keywords_count) \div 10
              + (Min(content_length, 1000) * event_weight_factors.content_length * Scale)
                   \div 10000
              + (credibility * event_weight_factors.source_credibility) \div 10
   IN  IF Len(articles) = 0 THEN 0
       ELSE IF HasListEntities(articles) THEN Raised("AttributeError")
       ELSE Min((SumFn([ i \in DOMAIN articles |-> Score(articles[i]) ],
                       DOMAIN articles) \div Len(articles)) * 2,
                10 * Scale)

(***************************************************************************)
(* TimelineGenerator._merge_entities (lines 180-192) and _merge_keywords   *)
(* (lines 194-215).  A dict keeps its keys in order of first insertion,    *)
(* which a record does not carry: the types of an entity mapping are       *)
(* visited in the order in which _extract_entities writes them, and in any *)
(* order when the mapping has a type that _extract_entities does not       *)
(* write.  merge_entities is the set of the lists the call can return.     *)
(***************************************************************************)
\* nlp_processor.py lines 136-141: the keys of the mapping, as they are written
EntityTypeInsertionOrder == << "PERSON", "ORGANIZATION", "LOCATION", "MISC" >>

\* every entity occurrence of the articles, in the orders in which the loops
\* of lines 184-188 can visit them
EntityOccurrences(articles) ==
   LET RECURSIVE Orders(_)
       Orders(S) ==
          IF S = {} THEN { << >> }
          ELSE UNION { { << x >> \o rest : rest \in Orders(S \ { x }) } : x \in S }
       TypeOrders(entities) ==
          IF DOMAIN entities \subseteq Range(EntityTypeInsertionOrder)
          THEN { SelectSeq(EntityTypeInsertionOrder, LAMBDA t : t \in DOMAIN entities) }
          ELSE Orders(DOMAIN entities)
       InOrder(entities) ==
          { FlattenSeq([ k \in DOMAIN types |-> entities[types[k]] ]) :
              types \in TypeOrders(entities) }
       RECURSIVE Visits(_)
       Visits(i) ==
          IF i > Len(articles) THEN { << >> }
          ELSE { first \o rest : first \in InOrder(Get(articles[i], "entities", << >>)),
                                 rest \in Visits(i + 1) }
   IN  Visits(1)

\* the distinct elements of seq in order of first appearance
RECURSIVE Distinct(_, _)
Distinct(seq, seen) ==
   IF Len(seq) = 0 THEN << >>
   ELSE IF Head(seq) \in seen THEN Distinct(Tail(seq), seen)
   ELSE << Head(seq) >> \o Distinct(Tail(seq), seen \cup { Head(seq) })

OccurrenceCounts(occ) ==
   [ e \in Range(occ) |-> Cardinality({ k \in DOMAIN occ : occ[k] = e }) ]

\* the distinct entities in order of first occurrence, most frequent first
EntitiesByCount(occ) == SortDesc(Distinct(occ, {}), OccurrenceCounts(occ))

\* variant that keeps the first 15 entities in the order they are met, used
\* to test that the most frequent ones are kept
merge_entities_first_seen(articles) ==
   { Take(Distinct(occ, {}), 15) : occ \in EntityOccurrences(articles) }

merge_entities(articles) ==
   IF HasListEntities(articles) THEN { Raised("AttributeError") }
   ELSE { Take(EntitiesByCount(occ), 15) : occ \in EntityOccurrences(articles) }

\* every keyword occurrence of the articles with its score, in loop order:
\* the keyword and the score of a dict, a plain string with the score 1.0
KeywordOccurrences(articles) ==
   LET Entries(keywords) ==
          [ k \in DOMAIN keywords |->
             IF "kind" \in DOMAIN keywords[k]
             THEN [keyword |-> keywords[k].value, score |-> Scale]
             ELSE [keyword |-> Get(keywords[k], "keyword", << >>),
                   score |-> Get(keywords[k], "score", 0)] ]
   IN  FlattenSeq([ i \in DOMAIN articles |->
          Entries(Get(articles[i], "keywords", << >>)) ])

ScoreSums(occ) ==
   [ w \in { occ[k].keyword : k \in DOMAIN occ } |->
      SumFn([ k \in DOMAIN occ |-> IF occ[k].keyword = w THEN occ[k].score ELSE 0 ],
            DOMAIN occ) ]

\* the distinct keywords in order of first occurrence, highest summed score first
KeywordsByScore(occ, keyword_scores) ==
   SortDesc(Distinct([ k \in DOMAIN occ |-> occ[k].keyword ], {}), keyword_scores)

\* sorted(keyword_scores.items(), key=score, reverse=True) compares the sums
\* as floats.  Two sums of the same addends in the same order are the same
\* float, and the keywords stay in order of first occurrence; two sums of
\* other addends that are equal in exact arithmetic can differ in the last
\* bit (0.1 + 0.1 + 0.4 > 0.3 + 0.3), which 1/Scale does not show: such
\* keywords come in either order.  KeywordOrders is the set of the orders
\* the sort can give.
KeywordOrders(occ, keyword_scores) ==
   LET stable == KeywordsByScore(occ, keyword_scores)
       ScoresOf(entries) == [ k \in DOMAIN entries |-> entries[k].score ]
       Addends(w) == ScoresOf(SelectSeq(occ, LAMBDA o : o.keyword = w))
       Without(run, i) == SubSeq(run, 1, i - 1) \o SubSeq(run, i + 1, Len(run))
       \* the arrangements of a run of keywords with equal sums
       RECURSIVE Arranged(_)
       Arranged(run) ==
          IF Len(run) = 0 THEN { << >> }
          ELSE UNION { { << run[i] >> \o rest : rest \in Arranged(Without(run, i)) } :
                       i \in { j \in DOMAIN run :
                                 \A m \in 1..(j - 1) : Addends(run[m]) # Addends(run[j]) } }
       RunEnd(i) ==
          CHOOSE j \in i..Len(stable) :
             /\ keyword_scores[stable[j]] = keyword_scores[stable[i]]
             /\ j = Len(stable) \/ keyword_scores[stable[j + 1]] # keyword_scores[stable[i]]
       RECURSIVE From(_)
       From(i) ==
          IF i > Len(stable) THEN { << >> }
          ELSE { first \o rest : first \in Arranged(SubSeq(stable, i, RunEnd(i))),
                                 rest \in From(RunEnd(i) + 1) }
   IN  From(1)

\* the lists the call can return, one for every order of the sort
merge_keywords(articles) ==
   LET WithScores(sorted_keywords, keyword_scores) ==
          [ k \in DOMAIN sorted_keywords |->
             [keyword |-> sorted_keywords[k],
              score |-> keyword_scores[sorted_keywords[k]]] ]
       Sorted(occ, keyword_scores) ==
          { WithScores(sorted_keywords, keyword_scores) :
               sorted_keywords \in KeywordOrders(occ, keyword_scores) }
       Merged(occ) == Sorted(occ, ScoreSums(occ))
   IN  Merged(KeywordOccurrences(articles))

(***************************************************************************)
(* TimelineGenerator._generate_event_title (lines 217-227) and             *)
(* _generate_event_description (lines 229-245)                             *)
(***************************************************************************)
\* sep.join(parts)
RECURSIVE JoinWith(_, _)
JoinWith(parts, sep) ==
   IF Len(parts) = 0 THEN << >>
   ELSE IF Len(parts) = 1 THEN parts[1]
   ELSE parts[1] \o sep \o JoinWith(Tail(parts), sep)

\* list(set([article['source'] for article in articles])): the lists this can
\* be, the different sources in any order
SourcesOf(articles) == list_of_set([ i \in DOMAIN articles |-> articles[i]["source"] ])

generate_event_title(articles, entities) ==
   IF Len(articles) = 1 THEN articles[1]["title"]
   ELSE IF Len(entities) > 0
   THEN << "N", "e", "w", "s", " ", "a", "b", "o", "u", "t", " " >> \o entities[1] \o << " ", "(" >> \o Str(Len(articles), 1) \o << " ", "a", "r", "t", "i", "c", "l", "e", "s", ")" >>
   ELSE << "M", "u", "l", "t", "i", "p", "l", "e", " ", "n", "e", "w", "s", " ", "e", "v", "e", "n", "t", "s", " ", "(" >> \o Str(Len(articles), 1) \o << " ", "a", "r", "t", "i", "c", "l", "e", "s", ")" >>

\* lines 233-245: the description, given the list of sources of line 231
DescriptionOf(articles, keywords, sources) ==
   LET description_parts ==
          (IF Len(articles) > 1
           THEN << Str(Len(articles), 1) \o << " ", "a", "r", "t", "i", "c", "l", "e", "s", " ", "f", "r", "o", "m", " " >>
                   \o Str(Len(sources), 1) \o << " ", "s", "o", "u", "r", "c", "e", "(", "s", ")" >> >>
           ELSE << >>)
          \o (IF Len(keywords) > 0
              THEN << << "K", "e", "y", " ", "t", "o", "p", "i", "c", "s", ":", " " >>
                      \o JoinWith([ k \in DOMAIN Take(keywords, 5) |-> keywords[k].keyword ],
                                  << ",", " " >>) >>
              ELSE << >>)
          \o (IF Len(sources) > 0
              THEN << << "S", "o", "u", "r", "c", "e", "s", ":", " " >> \o JoinWith(sources, << ",", " " >>) >>
              ELSE << >>)
   IN  JoinWith(description_parts, << ".", " " >>)

(***************************************************************************)
(* TimelineGenerator._extract_timeline_events (lines 100-144): one event   *)
(* per group, in the order of the groups.  TimelineEvent is the set of the *)
(* events a group can give and extract_timeline_events the set of the      *)
(* lists the call can return.  The set of sources is built twice, at line  *)
(* 117 and at line 231, from the same list in the same run: both lists     *)
(* have the same order.  An exception of _calculate_event_intensity is not *)
(* caught.                                                                 *)
(***************************************************************************)
TimelineEvent(event_id, date_str, articles) ==
   LET Event(all_entities, all_keywords, sources) ==
          [id |-> event_id,
           date |-> date_str,
           title |-> generate_event_title(articles, all_entities),
           description |-> DescriptionOf(articles, all_keywords, sources),
           intensity |-> calculate_event_intensity(articles),
           entities |-> all_entities,
           keywords |-> Take(all_keywords, 10),
           sources |-> sources,
           article_count |-> Len(articles),
           articles |-> [ k \in DOMAIN articles |->
                           [id |-> Get(articles[k], "_id", << "a", "r", "t", "i", "c", "l", "e", "_" >> \o Str(k - 1, 1)),
                            title |-> articles[k]["title"],
                            source |-> articles[k]["source"],
                            url |-> articles[k]["url"]] ]]
   IN  IF HasListEntities(articles) THEN { Raised("AttributeError") }
       ELSE { Event(all_entities, all_keywords, sources) :
                all_entities \in merge_entities(articles),
                all_keywords \in merge_keywords(articles),
                sources \in SourcesOf(articles) }

extract_timeline_events(arts, date_groups) ==
   LET MembersOf(group) == [ k \in DOMAIN group.members |-> arts[group.members[k]] ]
       RECURSIVE EventsFrom(_)
       EventsFrom(g) ==
          IF g > Len(date_groups) THEN { << >> }
          ELSE { << event >> \o rest :
                   event \in TimelineEvent(g, date_groups[g].date,
                                           MembersOf(date_groups[g])),
                   rest \in EventsFrom(g + 1) }
   IN  IF \E g \in DOMAIN date_groups : HasListEntities(MembersOf(date_groups[g]))
       THEN { Raised("AttributeError") }
       ELSE EventsFrom(1)

(***************************************************************************)
(* TimelineGenerator._generate_chart_data (lines 247-279)                  *)
(***************************************************************************)
\* sorted(timeline_events, key=lambda x: x['date']): stable, by string order
RECURSIVE InsertByDate(_, _)
InsertByDate(sorted, e) ==
   IF Len(sorted) = 0 THEN << e >>
   ELSE IF ~ StrLess(e.date, Head(sorted).date)
        THEN << Head(sorted) >> \o InsertByDate(Tail(sorted), e)
        ELSE << e >> \o sorted

RECURSIVE SortByDate(_)
SortByDate(events) ==
   IF Len(events) = 0 THEN << >>
   ELSE InsertByDate(SortByDate(SubSeq(events, 1, Len(events) - 1)), events[Len(events)])

generate_chart_data(timeline_events) ==
   LET Chart(sorted_events) ==
          [labels |-> [ k \in DOMAIN sorted_events |-> sorted_events[k].date ],
           datasets |->
              << [label |-> "Event Intensity",
                  data |-> [ k \in DOMAIN sorted_events |-> sorted_events[k].intensity ],
                  borderColor |-> "rgb(59, 130, 246)",
                  backgroundColor |-> "rgba(59, 130, 246, 0.1)",
                  tension |-> (4 * Scale) \div 10,
                  yAxisID |-> "y"],
                 [label |-> "Article Count",
                  data |-> [ k \in DOMAIN sorted_events |-> sorted_events[k].article_count ],
                  borderColor |-> "rgb(16, 185, 129)",
                  backgroundColor |-> "rgba(16, 185, 129, 0.1)",
                  tension |-> (4 * Scale) \div 10,
                  yAxisID |-> "y1"] >>]
   IN  IF Len(timeline_events) = 0 THEN [labels |-> << >>, datasets |-> << >>]
       ELSE Chart(SortByDate(timeline_events))

(***************************************************************************)
(* TimelineGenerator._generate_statistics (lines 281-325): the set of the  *)
(* results the call can return, one for every order in which the entities  *)
(* can be met and every order the sort of the keyword sums can give.       *)
(***************************************************************************)
generate_statistics(all_articles, timeline_events) ==
   LET Distribution(source_of) ==
          [ src \in Range(source_of) |->
             Cardinality({ i \in DOMAIN source_of : source_of[i] = src }) ]
       Statistics(all_entities, all_keywords, top_entities, top_keywords, sources) ==
          [total_events |-> Len(timeline_events),
           total_articles |-> Len(all_articles),
           unique_sources |-> Cardinality(DOMAIN sources),
           top_entities |-> [ k \in DOMAIN top_entities |->
                               [entity |-> top_entities[k],
                                count |-> all_entities[top_entities[k]]] ],
           top_keywords |-> [ k \in DOMAIN top_keywords |->
                               [keyword |-> top_keywords[k],
                                score |-> all_keywords[top_keywords[k]]] ],
           source_distribution |-> sources,
           average_intensity |->
              IF Len(timeline_events) > 0
              THEN SumFn([ k \in DOMAIN timeline_events |-> timeline_events[k].intensity ],
                         DOMAIN timeline_events) \div Len(timeline_events)
              ELSE 0]
       Over(entity_occ, keyword_scores, sorted_keywords) ==
          Statistics(OccurrenceCounts(entity_occ),
                     keyword_scores,
                     Take(EntitiesByCount(entity_occ), 10),
                     Take(sorted_keywords, 10),
                     Distribution([ i \in DOMAIN all_articles |->
                                     Get(all_articles[i], "source", UnknownSource) ]))
       OfKeywords(keyword_occ, keyword_scores) ==
          { Over(entity_occ, keyword_scores, sorted_keywords) :
               entity_occ \in EntityOccurrences(all_articles),
               sorted_keywords \in KeywordOrders(keyword_occ, keyword_scores) }
       OfOccurrences(keyword_occ) == OfKeywords(keyword_occ, ScoreSums(keyword_occ))
   IN  IF Len(all_articles) = 0 THEN { << >> }
       ELSE IF HasListEntities(all_articles) THEN { Raised("AttributeError") }
       ELSE OfOccurrences(KeywordOccurrences(all_articles))

(***************************************************************************)
(* TimelineGenerator._get_date_range (lines 327-336)                       *)
(***************************************************************************)
get_date_range(arts, dated) ==
   LET \* min(dates) / max(dates): the first element that no other one precedes /
       \* exceeds
       FirstMin(dates) ==
          dates[CHOOSE i \in DOMAIN dates :
                   /\ \A j \in DOMAIN dates :
                         InstantHours(dates[i]) <= InstantHours(dates[j])
                   /\ \A j \in 1 .. (i - 1) :
                         InstantHours(dates[j]) > InstantHours(dates[i])]
       FirstMax(dates) ==
          dates[CHOOSE i \in DOMAIN dates :
                   /\ \A j \in DOMAIN dates :
                         InstantHours(dates[i]) >= InstantHours(dates[j])
                   /\ \A j \in 1 .. (i - 1) :
                         InstantHours(dates[j]) < InstantHours(dates[i])]
       Range_(dates) ==
          [start |-> [kind |-> "str", value |-> strftime_ymd(FirstMin(dates))],
           end |-> [kind |-> "str", value |-> strftime_ymd(FirstMax(dates))]]
   IN  IF Len(dated) = 0 THEN [start |-> NoneValue, end |-> NoneValue]
       ELSE Range_([ k \in DOMAIN dated |-> arts[dated[k]]["timeline_date"] ])

(***************************************************************************)
(* TimelineGenerator.generate_timeline (lines 32-64): the set of the       *)
(* outcomes the call can have.  An outcome carries the returned            *)
(* TimelineResult (value), the caller's article list as the call leaves it *)
(* (articles) and, for the statement of the properties, the groups behind  *)
(* the events as positions in that list (groups).                          *)
(***************************************************************************)
generate_timeline(processed_articles) ==
   LET Result(arts, dated_articles, timeline_events, statistics) ==
          [events |-> timeline_events,
           chart_data |-> generate_chart_data(timeline_events),
           statistics |-> statistics,
           date_range |-> get_date_range(arts, dated_articles),
           total_articles |-> Len(processed_articles),
           generated_at |-> UtcNow]
       OfEvents(arts, dated_articles, date_groups, timeline_events) ==
          { [status |-> "ok",
             articles |-> arts,
             groups |-> date_groups,
             value |-> Result(arts, dated_articles, timeline_events, statistics)] :
              statistics \in generate_statistics(arts, timeline_events) }
       OfGroups(arts, dated_articles, date_groups) ==
          UNION { OfEvents(arts, dated_articles, date_groups, timeline_events) :
                     timeline_events \in extract_timeline_events(arts, date_groups) }
       OfSorted(sorted) ==
          IF sorted.status = "raised"
          THEN { [status |-> "raised", error |-> sorted.error,
                  articles |-> sorted.articles] }
          ELSE IF HasListEntities(sorted.articles)
          THEN { [status |-> "raised", error |-> "AttributeError",
                  articles |-> sorted.articles] }
          ELSE OfGroups(sorted.articles, sorted.value,
                        group_articles_by_date(sorted.articles, sorted.value))
   IN  OfSorted(filter_and_sort_articles(processed_articles))

(***************************************************************************)
(* NewsScraper (news_scraper.py).  The web is a table of pages.  A page is *)
(* what the selectors of _extract_title, _extract_content and              *)
(* _extract_date find in its document: the text of the title element, the  *)
(* text of the content elements, the date string, each                     *)
(* [kind |-> "str", value |-> text], or None where no selector matches.    *)
(***************************************************************************)
\* source_mapping of _extract_source (lines 67-78), as pairs of domain and name
source_mapping ==
   << << << "t", "h", "a", "i", "r", "a", "t", "h", ".", "c", "o", ".", "t", "h" >>, << "T", "h", "a", "i", "r", "a", "t", "h" >> >>,
      << << "k", "a", "p", "o", "o", "k", ".", "c", "o", "m" >>, << "K", "a", "p", "o", "o", "k" >> >>,
      << << "b", "a", "n", "g", "k", "o", "k", "p", "o", "s", "t", ".", "c", "o", "m" >>, << "B", "a", "n", "g", "k", "o", "k", " ", "P", "o", "s", "t" >> >>,
      << << "n", "a", "t", "i", "o", "n", "t", "h", "a", "i", "l", "a", "n", "d", ".", "c", "o", "m" >>, << "T", "h", "e", " ", "N", "a", "t", "i", "o", "n", " ", "T", "h", "a", "i", "l", "a", "n", "d" >> >>,
      << << "k", "h", "a", "o", "s", "o", "d", ".", "c", "o", ".", "t", "h" >>, << "K", "h", "a", "o", "s", "o", "d" >> >>,
      << << "m", "a", "t", "i", "c", "h", "o", "n", ".", "c", "o", ".", "t", "h" >>, << "M", "a", "t", "i", "c", "h", "o", "n" >> >>,
      << << "m", "a", "n", "a", "g", "e", "r", ".", "c", "o", ".", "t", "h" >>, << "M", "a", "n", "a", "g", "e", "r" >> >>,
      << << "t", "h", "a", "i", "p", "b", "s", ".", "o", "r", ".", "t", "h" >>, << "T", "h", "a", "i", " ", "P", "B", "S" >> >>,
      << << "s", "a", "n", "o", "o", "k", ".", "c", "o", "m" >>, << "S", "a", "n", "o", "o", "k" >> >>,
      << << "d", "a", "i", "l", "y", "n", "e", "w", "s", ".", "c", "o", ".", "t", "h" >>, << "D", "a", "i", "l", "y", " ", "N", "e", "w", "s" >> >> >>

\* _extract_source (lines 56-83): the mapped name of urlparse(url).netloc in
\* lower case without a leading "www.", the domain itself when the mapping
\* has no name for it, 'Unknown' when urlparse raises (lines 82-83)
extract_source(url) ==
   LET AsciiDigits == { "0", "1", "2", "3", "4", "5", "6", "7", "8", "9" }
       HexDigits == AsciiDigits \cup { "a", "b", "c", "d", "e", "f",
                                       "A", "B", "C", "D", "E", "F" }
       \* the characters urlsplit strips from the left of the url
       C0ControlOrSpace ==
          { "U0000", "U0001", "U0002", "U0003", "U0004", "U0005", "U0006", "U0007",
            "U0008", "\t", "\n", "U000B", "U000C", "\r", "U000E", "U000F", "U0010",
            "U0011", "U0012", "U0013", "U0014", "U0015", "U0016", "U0017", "U0018",
            "U0019", "U001A", "U001B", "U001C", "U001D", "U001E", "U001F", " " }
       \* the characters whose NFKC form holds one of / ? # @ :
       \* (_checknetloc)
       NetlocForbidden ==
          { "U2047", "U2048", "U2049", "U2100", "U2101", "U2105", "U2106", "U2A74",
            "UFE13", "UFE16", "UFE55", "UFE56", "UFE5F", "UFE6B", "UFF03", "UFF0F",
            "UFF1A", "UFF1F", "UFF20" }
       \* str.find: the first position from start on of a character of the
       \* class, Len(s) + 1 when there is none
       Find(s, class, start) ==
          LET at == { i \in start .. Len(s) : s[i] \in class }
          IN  IF at = {} THEN Len(s) + 1 ELSE CHOOSE i \in at : \A j \in at : i <= j
       \* IPv4Address(text): four octets without sign and leading zero, each
       \* at most 255
       Octet(text) ==
          /\ Len(text) \in 1 .. 3
          /\ \A i \in DOMAIN text : text[i] \in AsciiDigits
          /\ text = << "0" >> \/ text[1] # "0"
          /\ NumVal(text) <= 255
       IPv4(text) ==
          LET octets == SplitOn(text, { "." })
          IN  Len(octets) = 4 /\ \A k \in DOMAIN octets : Octet(octets[k])
       Hextet(text) ==
          Len(text) \in 1 .. 4 /\ \A i \in DOMAIN text : text[i] \in HexDigits
       \* IPv6Address(host): hextets between colons, "::" at most once for the
       \* hextets left out, an IPv4 address in place of the last two, a scope
       \* id after "%"
       Skipping(parts, i, parts_hi, parts_lo) ==
          /\ parts[1] = << >> => parts_hi = 0
          /\ parts[Len(parts)] = << >> => parts_lo = 0
          /\ 8 - (parts_hi + parts_lo) >= 1
          /\ \A k \in (1 .. parts_hi) \cup ((Len(parts) - parts_lo + 1) .. Len(parts)) :
                Hextet(parts[k])
       Hextets(parts, skips) ==
          /\ Len(parts) <= 9
          /\ Cardinality(skips) <= 1
          /\ IF skips = {}
             THEN Len(parts) = 8 /\ \A k \in DOMAIN parts : Hextet(parts[k])
             ELSE \E i \in skips :
                     Skipping(parts, i,
                              IF parts[1] = << >> THEN i - 2 ELSE i - 1,
                              IF parts[Len(parts)] = << >>
                              THEN Len(parts) - i - 1 ELSE Len(parts) - i)
       Parts(split, suffixed) ==
          /\ Len(split) >= 3
          /\ suffixed => IPv4(split[Len(split)])
          /\ \E parts \in { IF suffixed
                            THEN SubSeq(split, 1, Len(split) - 1)
                                    \o << << "0" >>, << "0" >> >>
                            ELSE split } :
                Hextets(parts, { i \in 2 .. Len(parts) - 1 : parts[i] = << >> })
       Address(addr) ==
          /\ Len(addr) > 0
          /\ \E split \in { SplitOn(addr, { ":" }) } :
                Parts(split, "." \in Range(split[Len(split)]))
       Scoped(host, percent) ==
          /\ percent <= Len(host) =>
                /\ percent < Len(host)
                /\ "%" \notin Range(SubSeq(host, percent + 1, Len(host)))
          /\ Address(SubSeq(host, 1, percent - 1))
       IPv6(host) == Scoped(host, Find(host, { "%" }, 1))
       \* _check_bracketed_host: v, hexadecimal digits, a dot and more, or an
       \* IPv6 address
       Bracketed(host) ==
          IF Len(host) > 0 /\ host[1] = "v"
          THEN \E k \in 2 .. Len(host) - 2 :
                  /\ \A i \in 2 .. k : host[i] \in HexDigits
                  /\ host[k + 1] = "."
          ELSE IPv6(host)
       \* urlsplit: the url without the characters stripped from its left and
       \* without tab, carriage return and newline; its scheme, the part up to
       \* the first colon; its netloc, what stands between "//" and the next
       \* "/", "?" or "#"
       Schemed(text, colon) ==
          /\ colon > 1
          /\ colon <= Len(text)
          /\ text[1] \in LatinLetters
          /\ \A i \in 1 .. colon - 1 :
                text[i] \in LatinLetters \cup AsciiDigits \cup { "+", "-", "." }
       Checked(netloc, opening, closing) ==
          IF (opening <= Len(netloc)) # (closing <= Len(netloc))
          THEN Raised("ValueError")
          ELSE IF opening <= Len(netloc)
                  /\ ~ Bracketed(SubSeq(netloc, opening + 1,
                                        Find(netloc, { "]" }, opening + 1) - 1))
          THEN Raised("ValueError")
          ELSE IF Range(netloc) \cap NetlocForbidden # {}
          THEN Raised("ValueError")
          ELSE Returned(netloc)
       OfNetloc(netloc) ==
          Checked(netloc, Find(netloc, { "[" }, 1), Find(netloc, { "]" }, 1))
       OfRest(rest) ==
          OfNetloc(IF Len(rest) >= 2 /\ rest[1] = "/" /\ rest[2] = "/"
                   THEN SubSeq(rest, 3, Find(rest, { "/", "?", "#" }, 3) - 1)
                   ELSE << >>)
       OfText(text, colon) ==
          OfRest(IF Schemed(text, colon) THEN SubSeq(text, colon + 1, Len(text))
                 ELSE text)
       Stripped(text) ==
          OfText(SelectSeq(text, LAMBDA c : c \notin { "\t", "\r", "\n" }),
                 Find(SelectSeq(text, LAMBDA c : c \notin { "\t", "\r", "\n" }),
                      { ":" }, 1))
       Netloc(unsafe) ==
          Stripped(SubSeq(unsafe, Find(unsafe, Range(unsafe) \ C0ControlOrSpace, 1),
                          Len(unsafe)))
       Mapped(domain, known) ==
          IF known = {} THEN domain
          ELSE source_mapping[CHOOSE k \in known : TRUE][2]
       Known(domain) ==
          Mapped(domain, { k \in DOMAIN source_mapping : source_mapping[k][1] = domain })
       Named(domain) ==
          Known(IF Len(domain) >= 4 /\ SubSeq(domain, 1, 4) = << "w", "w", "w", "." >>
                THEN SubSeq(domain, 5, Len(domain)) ELSE domain)
       Source(parsed) ==
          IF parsed.status = "raised" THEN << "U", "n", "k", "n", "o", "w", "n" >>
          ELSE Named(Lower(parsed.value))
   IN  Source(Netloc(url))

\* the time of datetime.utcnow() at line 41
ScrapedAt == DateTime(2024, 1, 3, 8)

\* the pages of the web (the response and the soup of lines 29-32): an English
\* page, a Thai page without a date, a Thai page with a date in its text, with
\* and without a published date, an English and a mixed page whose dates carry
\* an offset; a page with a blank title, a page with a content of 100
\* characters.  Every other url fails to load.
Pages ==
   LET Text(value) == [kind |-> "str", value |-> value]
       Page(url, title, content_text, date_str) ==
          [url |-> url, title |-> title, content_text |-> content_text,
           date_str |-> date_str]
       English ==
          << "\n", " ", "t", "h", "e", " ", "c", "a", "t", " ", "a", "n", "d", " ", "t", "h",
          "e", " ", "b", "i", "r", "d", " ", "w", "e", "r", "e", " ", "i", "n", " ",
          "t", "h", "e", " ", "c", "i", "t", "y", " ", "m", "a", "r", "k", "e", "t",
          ".", " ", "\n", " ", "t", "h", "e", " ", "f", "l", "o", "o", "d", " ", "w",
          "a", "s", " ", "i", "n", " ", "t", "h", "e", " ", "m", "a", "r", "k", "e",
          "t", ".", " ", "r", "a", "i", "n", " ", "w", "a", "s", " ", "i", "n", " ",
          "t", "h", "e", " ", "c", "i", "t", "y", ".", " ", "t", "h", "e", " ", "c",
          "a", "t", " ", "w", "a", "s", " ", "i", "n", " ", "t", "h", "e", " ", "r",
          "a", "i", "n", "\n" >>
       Thai ==
          << "\n", " ", "t", "h", "e", " ", "U0E19", "U0E01", " ", "t", "h", "e", " ", "U0E23",
          "U0E16", ".", " ", "\n", " ", "U0E01", "U0E23", "U0E21", "U0E23", "U0E16",
          ".", " ", "t", "h", "e", " ", "U0E19", "U0E01", " ", "U0E02", "U0E2D",
          "U0E07", " ", "U0E23", "U0E16", ".", " ", "U0E23", "U0E16", " ", "U0E19",
          "U0E01", " ", "U0E23", "U0E16", ".", " ", "U0E19", "U0E01", " ", "U0E23",
          "U0E16", " ", "U0E19", "U0E01", ".", " ", "U0E23", "U0E16", " ", "U0E02",
          "U0E2D", "U0E07", " ", "U0E19", "U0E01", ".", " ", "U0E19", "U0E01", " ",
          "U0E19", "U0E01", " ", "U0E23", "U0E16", ".", " ", "U0E23", "U0E16", " ",
          "U0E23", "U0E16", " ", "U0E19", "U0E01", ".", " ", "U0E19", "U0E01", " ",
          "U0E23", "U0E16", " ", "U0E23", "U0E16", " ", "U0E19", "U0E01", ".", " ",
          "U0E23", "U0E16", " ", "U0E19", "U0E01", " ", "U0E19", "U0E01", " ",
          "U0E23", "U0E16", ".", " ", "t", "h", "e", " ", "U0E19", "U0E01", "\n" >>
       ThaiDated ==
          << "\n", " ", "1", "/", "1", "/", "2", "0", "2", "4", " ", "U0E01", "U0E23", "U0E21",
          "U0E23", "U0E16", ".", " ", "\n", " ", "U0E01", "U0E23", "U0E21", " ",
          "U0E19", "U0E01", ".", " ", "U0E23", "U0E16", " ", "U0E19", "U0E01", " ",
          "U0E23", "U0E16", ".", " ", "U0E19", "U0E01", " ", "U0E02", "U0E2D",
          "U0E07", " ", "U0E23", "U0E16", ".", " ", "U0E19", "U0E01", " ", "U0E23",
          "U0E16", " ", "U0E19", "U0E01", ".", " ", "U0E23", "U0E16", " ", "U0E02",
          "U0E2D", "U0E07", " ", "U0E19", "U0E01", ".", " ", "U0E19", "U0E01", " ",
          "U0E19", "U0E01", " ", "U0E23", "U0E16", ".", " ", "U0E23", "U0E16", " ",
          "U0E23", "U0E16", " ", "U0E19", "U0E01", ".", " ", "U0E19", "U0E01", " ",
          "U0E23", "U0E16", " ", "U0E23", "U0E16", " ", "U0E19", "U0E01", ".", " ",
          "U0E23", "U0E16", " ", "U0E19", "U0E01", " ", "U0E19", "U0E01", " ",
          "U0E23", "U0E16", ".", " ", "U0E19", "U0E01", " ", "U0E23", "U0E16", "\n" >>
       Mixed ==
          << "\n", " ", "t", "h", "e", " ", "c", "a", "t", ".", " ", "\n", " ", "t", "h", "e",
          " ", "c", "a", "t", ".", " ", "t", "h", "e", " ", "c", "a", "t", ".", " ",
          "t", "h", "e", " ", "c", "a", "t", ".", " ", "t", "h", "e", " ", "c", "a",
          "t", ".", " ", "t", "h", "e", " ", "c", "a", "t", ".", " ", "U0E19",
          "U0E01", " ", "U0E23", "U0E16", ".", " ", "U0E19", "U0E01", " ", "U0E23",
          "U0E16", ".", " ", "U0E19", "U0E01", " ", "U0E23", "U0E16", ".", " ",
          "U0E19", "U0E01", " ", "U0E23", "U0E16", ".", " ", "U0E19", "U0E01", " ",
          "U0E23", "U0E16", ".", " ", "U0E19", "U0E01", " ", "U0E23", "U0E16", ".",
          " ", "U0E19", "U0E01", " ", "U0E23", "U0E16", ".", " ", "U0E19", "U0E01",
          " ", "U0E23", "U0E16", ".", " ", "U0E19", "U0E01", " ", "U0E23", "U0E16",
          ".", "\n" >>
       Short ==
          << "\n", " ", "t", "h", "e", " ", "c", "a", "t", " ", "a", "n", "d", " ", "t", "h",
          "e", " ", "b", "i", "r", "d", " ", "w", "e", "r", "e", " ", "i", "n", " ",
          "t", "h", "e", " ", "c", "i", "t", "y", " ", "m", "a", "r", "k", "e", "t",
          ".", " ", "\n", " ", "t", "h", "e", " ", "f", "l", "o", "o", "d", " ", "w",
          "a", "s", " ", "i", "n", " ", "t", "h", "e", " ", "m", "a", "r", "k", "e",
          "t", ".", " ", "r", "a", "i", "n", " ", "w", "a", "s", " ", "i", "n", " ",
          "t", "h", "e", " ", "c", "i", "t", "y", ".", " ", "t", "h", "e", "\n" >>
   IN  { Page(<< "h", "t", "t", "p", "s", ":", "/", "/", "w", "w", "w", ".", "b", "a", "n", "g", "k", "o", "k", "p", "o", "s", "t", ".", "c", "o", "m", "/", "a", "1" >>,
              Text(<< " ", "C", "i", "t", "y", " ", "f", "l", "o", "o", "d", "\n" >>), English, Text(<< "2", "0", "2", "4", "-", "0", "1", "-", "0", "1", "T", "1", "0", ":", "0", "0", ":", "0", "0" >>)),
         Page(<< "h", "t", "t", "p", "s", ":", "/", "/", "w", "w", "w", ".", "t", "h", "a", "i", "r", "a", "t", "h", ".", "c", "o", ".", "t", "h", "/", "a", "2" >>,
              Text(<< "T", "h", "a", "i", " ", "n", "e", "w", "s" >>), Thai, NoneValue),
         Page(<< "h", "t", "t", "p", "s", ":", "/", "/", "w", "w", "w", ".", "t", "h", "a", "i", "r", "a", "t", "h", ".", "c", "o", ".", "t", "h", "/", "a", "3" >>,
              Text(<< "T", "h", "a", "i", " ", "n", "e", "w", "s", " ", "3" >>), ThaiDated, Text(<< "2", "0", "2", "4", "-", "0", "1", "-", "0", "2", "T", "0", "9", ":", "0", "0", ":", "0", "0" >>)),
         Page(<< "h", "t", "t", "p", "s", ":", "/", "/", "w", "w", "w", ".", "t", "h", "a", "i", "p", "b", "s", ".", "o", "r", ".", "t", "h", "/", "a", "4" >>,
              Text(<< "T", "h", "a", "i", " ", "n", "e", "w", "s", " ", "4" >>), ThaiDated, NoneValue),
         Page(<< "h", "t", "t", "p", "s", ":", "/", "/", "W", "W", "W", ".", "B", "a", "n", "g", "k", "o", "k", "P", "o", "s", "t", ".", "c", "o", "m", "/", "a", "5" >>,
              Text(<< "C", "i", "t", "y", " ", "f", "l", "o", "o", "d" >>), English, Text(<< "2", "0", "2", "4", "-", "0", "1", "-", "0", "2", "T", "0", "0", ":", "0", "0", ":", "0", "0", "+", "0", "7", ":", "0", "0" >>)),
         Page(<< "h", "t", "t", "p", "s", ":", "/", "/", "e", "x", "a", "m", "p", "l", "e", ".", "c", "o", "m", "/", "a", "6", "?", "x", "=", "1" >>,
              Text(<< "M", "i", "x", "e", "d", " ", "n", "e", "w", "s" >>), Mixed, Text(<< "2", "0", "2", "4", "-", "0", "1", "-", "0", "1", "T", "2", "0", ":", "0", "0", ":", "0", "0", "+", "0", "0", ":", "0", "0" >>)),
         Page(<< "h", "t", "t", "p", "s", ":", "/", "/", "e", "x", "a", "m", "p", "l", "e", ".", "c", "o", "m", "/", "b", "1" >>,
              Text(<< " ", "\n" >>), English, NoneValue),
         Page(<< "h", "t", "t", "p", "s", ":", "/", "/", "w", "w", "w", ".", "s", "a", "n", "o", "o", "k", ".", "c", "o", "m", "/", "b", "2" >>,
              Text(<< " ", "C", "i", "t", "y", " ", "f", "l", "o", "o", "d", "\n" >>), Short, Text(<< "2", "0", "2", "4", "-", "0", "1", "-", "0", "1", "T", "1", "0", ":", "0", "0", ":", "0", "0" >>)) }

\* the urls of the requests: those of the pages and one that fails to load
Urls ==
   { page.url : page \in Pages }
   \cup { << "h", "t", "t", "p", "s", ":", "/", "/", "e", "x", "a", "m", "p", "l", "e", ".", "c", "o", "m", "/", "b", "3" >> }

\* variant that rejects a record only when its title or its content is None,
\* used to test that a record with an empty title is rejected
scrape_article_unless_none(url) ==
   LET extract_title(soup) ==
          IF soup.title = NoneValue THEN NoneValue
          ELSE [kind |-> "str", value |-> Strip(soup.title.value)]
       extract_content(soup) ==
          LET content_text == Strip(CollapseWhitespace(soup.content_text))
          IN  IF Len(content_text) > 100 THEN [kind |-> "str", value |-> content_text]
              ELSE NoneValue
       extract_date(soup) ==
          IF soup.date_str = NoneValue \/ Len(soup.date_str.value) = 0 THEN NoneValue
          ELSE dateparser_parse(soup.date_str.value)
       Missing(text) == text = NoneValue
       article_data(soup) ==
          [url |-> url,
           source |-> extract_source(url),
           title |-> extract_title(soup),
           content |-> extract_content(soup),
           published_date |-> extract_date(soup),
           scraped_at |-> ScrapedAt,
           author |-> NoneValue,
           tags |-> << >>]
       Validated(data) ==
          IF Missing(data.title) \/ Missing(data.content) THEN NoneValue
          ELSE [data EXCEPT !.title = @.value, !.content = @.value]
       found == { page \in Pages : page.url = url }
   IN  IF found = {} THEN NoneValue
       ELSE Validated(article_data(CHOOSE page \in found : TRUE))

\* scrape_article (lines 18-54): the record of the page at url, or None when
\* the page fails to load (lines 52-54) or its title or content is None or
\* empty (lines 47-48).  The pages have no author and no tags.
scrape_article(url) ==
   LET \* _extract_title (lines 85-111)
       extract_title(soup) ==
          IF soup.title = NoneValue THEN NoneValue
          ELSE [kind |-> "str", value |-> Strip(soup.title.value)]
       \* _extract_content (lines 113-149): white space collapsed to single
       \* blanks, more than 100 characters
       extract_content(soup) ==
          LET content_text == Strip(CollapseWhitespace(soup.content_text))
          IN  IF Len(content_text) > 100 THEN [kind |-> "str", value |-> content_text]
              ELSE NoneValue
       \* _extract_date (lines 151-174)
       extract_date(soup) ==
          IF soup.date_str = NoneValue \/ Len(soup.date_str.value) = 0 THEN NoneValue
          ELSE dateparser_parse(soup.date_str.value)
       \* not text, of a text or None
       Missing(text) == text = NoneValue \/ Len(text.value) = 0
       article_data(soup) ==
          [url |-> url,
           source |-> extract_source(url),
           title |-> extract_title(soup),
           content |-> extract_content(soup),
           published_date |-> extract_date(soup),
           scraped_at |-> ScrapedAt,
           author |-> NoneValue,
           tags |-> << >>]
       Validated(data) ==
          IF Missing(data.title) \/ Missing(data.content) THEN NoneValue
          ELSE [data EXCEPT !.title = @.value, !.content = @.value]
       found == { page \in Pages : page.url = url }
   IN  IF found = {} THEN NoneValue
       ELSE Validated(article_data(CHOOSE page \in found : TRUE))

(***************************************************************************)
(* The store (pymongo).  A store is the database newstimelineai: its       *)
(* collections, each the sequence of its documents in insertion order, its *)
(* indexes in the order of their creation, and the number of documents     *)
(* inserted so far, from which an ObjectId is made.                        *)
(***************************************************************************)
\* collections_config of initialize_database (init_mongodb.py lines 44-129):
\* for each collection its indexes as lines 139-151 create them (line 147
\* passes the key alone, so that every index is ascending, and makes it
\* unique when the second item of the pair is 1) and its sample document
collections_config ==
   LET Index(name, keys, unique) == [name |-> name, keys |-> keys, unique |-> unique]
   IN  << [name |-> "articles",
           indexes |-> << Index("url_1", << "url" >>, TRUE),
                          Index("published_date_1", << "published_date" >>, FALSE),
                          Index("language_1", << "language" >>, TRUE),
                          Index("keywords_1", << "keywords" >>, TRUE),
                          Index("created_at_1", << "created_at" >>, FALSE) >>,
           sample_doc |->
              [url |-> << "h", "t", "t", "p", "s", ":", "/", "/", "e", "x", "a", "m", "p", "l", "e", ".", "c", "o", "m", "/", "n", "e", "w", "s", "/", "s", "a", "m", "p", "l", "e" >>,
               title |-> << "S", "a", "m", "p", "l", "e", " ", "N", "e", "w", "s", " ", "A", "r", "t", "i", "c", "l", "e" >>,
               content |-> << "S", "a", "m", "p", "l", "e", " ", "c", "o", "n", "t", "e", "n", "t", ".", ".", "." >>,
               published_date |-> UtcNow,
               language |-> "th",
               keywords |-> << [kind |-> "str", value |-> << "k", "e", "y", "w", "o", "r", "d", "1" >>],
                               [kind |-> "str", value |-> << "k", "e", "y", "w", "o", "r", "d", "2" >>] >>,
               entities |-> [kind |-> "list", value |-> << << "e", "n", "t", "i", "t", "y", "1" >>,
                                                           << "e", "n", "t", "i", "t", "y", "2" >> >>],
               sentiment |-> [score |-> Scale \div 2, label |-> << "n", "e", "u", "t", "r", "a", "l" >>],
               summary |-> << "S", "a", "m", "p", "l", "e", " ", "s", "u", "m", "m", "a", "r", "y", ".", ".", "." >>,
               created_at |-> UtcNow,
               _sample |-> TRUE]],
          [name |-> "analyses",
           indexes |-> << Index("created_at_1", << "created_at" >>, FALSE),
                          Index("input_type_1", << "input_type" >>, TRUE),
                          Index("urls_1", << "urls" >>, TRUE) >>,
           sample_doc |->
              [articles |-> << >>,
               timeline |-> [events |-> << >>, statistics |-> << >>],
               created_at |-> UtcNow,
               input_type |-> "url",
               urls |-> << << "h", "t", "t", "p", "s", ":", "/", "/", "e", "x", "a", "m", "p", "l", "e", ".", "c", "o", "m" >> >>,
               _sample |-> TRUE]],
          [name |-> "comparisons",
           indexes |-> << Index("article1_id_1", << "article1_id" >>, TRUE),
                          Index("article2_id_1", << "article2_id" >>, TRUE),
                          Index("created_at_1", << "created_at" >>, FALSE),
                          Index("article1_id_1_article2_id_1",
                                << "article1_id", "article2_id" >>, TRUE) >>,
           sample_doc |->
              [article1_id |-> << "s", "a", "m", "p", "l", "e", "_", "i", "d", "_", "1" >>,
               article2_id |-> << "s", "a", "m", "p", "l", "e", "_", "i", "d", "_", "2" >>,
               similarity_result |->
                  [similarity_score |-> (3 * Scale) \div 4,
                   common_keywords |-> << << "k", "e", "y", "w", "o", "r", "d", "1" >> >>,
                   common_entities |-> << << "e", "n", "t", "i", "t", "y", "1" >> >>],
               created_at |-> UtcNow,
               _sample |-> TRUE]],
          [name |-> "timelines",
           indexes |-> << Index("analysis_id_1", << "analysis_id" >>, TRUE),
                          Index("created_at_1", << "created_at" >>, FALSE),
                          Index("event_date_1", << "event_date" >>, TRUE) >>,
           sample_doc |->
              [analysis_id |-> << "s", "a", "m", "p", "l", "e", "_", "a", "n", "a", "l", "y", "s", "i", "s", "_", "i", "d" >>,
               events |-> << [date |-> UtcNow,
                              title |-> << "S", "a", "m", "p", "l", "e", " ", "E", "v", "e", "n", "t" >>,
                              description |-> << "S", "a", "m", "p", "l", "e", " ", "e", "v", "e", "n", "t", " ", "d", "e", "s", "c", "r", "i", "p", "t", "i", "o", "n" >>,
                              articles |-> << << "a", "r", "t", "i", "c", "l", "e", "_", "i", "d", "_", "1" >> >>,
                              importance |-> (4 * Scale) \div 5] >>,
               created_at |-> UtcNow,
               _sample |-> TRUE]] >>

\* collection.create_index (init_mongodb.py lines 144, 147): the store with
\* the index; the store as it is when it has the index already, and when the
\* index is unique and two documents of the collection have a key in common
\* (OperationFailure, lines 152-156).  The keys of a document in an index on
\* one field are the elements of the field when it is a list, else its
\* value, null when the document has no such field; in an index on several
\* fields, the tuple of their values.
create_index(store, collection, index) ==
   LET KeysOf(document) ==
          IF Len(index.keys) > 1
          THEN { [ k \in DOMAIN index.keys |-> Get(document, index.keys[k], NoneValue) ] }
          ELSE IF index.keys[1] \in { "urls", "keywords" } /\ index.keys[1] \in DOMAIN document
          THEN Range(document[index.keys[1]])
          ELSE { Get(document, index.keys[1], NoneValue) }
       entry == [collection |-> collection, name |-> index.name, keys |-> index.keys,
                 unique |-> index.unique]
       documents == store[collection]
   IN  IF entry \in Range(store.indexes) THEN store
       ELSE IF index.unique
               /\ \E i, j \in DOMAIN documents :
                     i < j /\ KeysOf(documents[i]) \cap KeysOf(documents[j]) # {}
       THEN store
       ELSE [store EXCEPT !.indexes = Append(@, entry)]

\* collection.insert_one (app.py lines 144, 182; init_mongodb.py lines 160,
\* 195): the store with the document under a new ObjectId, or
\* DuplicateKeyError for the first unique index of the collection in which
\* the document has a key of a document of the collection
insert_one(store, collection, document) ==
   LET KeysOf(index, doc) ==
          IF Len(index.keys) > 1
          THEN { [ k \in DOMAIN index.keys |-> Get(doc, index.keys[k], NoneValue) ] }
          ELSE IF index.keys[1] \in { "urls", "keywords" } /\ index.keys[1] \in DOMAIN doc
          THEN Range(doc[index.keys[1]])
          ELSE { Get(doc, index.keys[1], NoneValue) }
       broken == SelectSeq(store.indexes,
                           LAMBDA index :
                              /\ index.collection = collection
                              /\ index.unique
                              /\ \E k \in DOMAIN store[collection] :
                                    KeysOf(index, store[collection][k])
                                       \cap KeysOf(index, document) # {})
       inserted == [_id |-> [kind |-> "ObjectId", value |-> Str(store.inserted + 1, 24)]]
                   @@ document
   IN  IF Len(broken) > 0
       THEN Raised([kind |-> "DuplicateKeyError", collection |-> collection,
                    index |-> broken[1].name])
       ELSE Returned([store EXCEPT ![collection] = Append(@, inserted),
                                   !.inserted = @ + 1])

(***************************************************************************)
(* The state of the application (app.py create_app) and of its store: the  *)
(* database handle mongo with the store, or None when the connection       *)
(* failed (lines 41-66); the processor nlp_processor (line 70); the        *)
(* requests being served, each with the local variables of its handler and *)
(* the call it is about to make (the server of app.run serves every        *)
(* request in a thread of its own, so requests overlap); the run of        *)
(* init_mongodb.py on the same store, None when the script is not running; *)
(* the last step with what it was given and what it gave.  A handler takes *)
(* one step per call that waits: requests.get in scrape_article, the calls *)
(* of the store, and the calls process_article and generate_timeline.  The *)
(* script takes one step per call of the store.                            *)
(***************************************************************************)
VARIABLES mongo, nlp_processor, requests, script, last

vars == << mongo, nlp_processor, requests, script, last >>

\* the work of a behaviour at most (a request in flight and an analysis in
\* the store count two, or one more than their urls, the script counts two
\* from its first call of the store on), the sub-extractors that
\* raise in one request at most, and the documents inserted into the store
\* at most when a run of the script ends
MaxWork == 4
MaxFaults == 1
MaxInserted == 7

\* the work in flight and in the store
Work ==
   LET Weight(document) == Max(2, 1 + Len(Get(document, "urls", << >>)))
       analyses == IF mongo = NoneValue THEN << >>
                   ELSE SelectSeq(mongo.analyses,
                                  LAMBDA document : "_sample" \notin DOMAIN document)
   IN  SumFn([ k \in DOMAIN analyses |-> Weight(analyses[k]) ], DOMAIN analyses)
       + SumFn([ request \in BagToSet(requests) |->
                    requests[request] * Weight(request.data) ], BagToSet(requests))
       + (IF mongo # NoneValue /\ Len(mongo.indexes) > 0 THEN 2 ELSE 0)

\* scrape_article on each url, and process_article on each record it
\* returns with each sub-extractor raising: the calls a request can make
ScrapedRecords == { [url |-> url, article_data |-> scrape_article(url)] : url \in Urls }

ProcessedRecords ==
   { [article_data |-> article_data, throws |-> throws,
      outcomes |-> process_article(NLPProcessor, article_data, throws)] :
        article_data \in { scraped.article_data : scraped \in ScrapedRecords } \ { NoneValue },
        throws \in { {} } \cup { { e } : e \in Extractors } }

\* create_app (lines 41-72): the connection failed or the handle is that of
\* a database without collections; no request, no run of the script
Init ==
   /\ mongo \in { NoneValue,
                  [kind |-> "PyMongo", articles |-> << >>, analyses |-> << >>,
                   comparisons |-> << >>, timelines |-> << >>,
                   test_collection |-> << >>, indexes |-> << >>, inserted |-> 0] }
   /\ nlp_processor = NLPProcessor
   /\ requests = EmptyBag
   /\ script = NoneValue
   /\ last = [op |-> "init"]

\* app.py lines 94-114, analyze_news up to the scraping loop: the checks of
\* the request.  data is the JSON body, None or a dict.  Without urls the
\* loop of lines 115-122 has no turn and lines 124-125 answer.
AnalyzeNews ==
   /\ \E slack \in { MaxWork - Work }, data \in { NoneValue, [input_type |-> "text"] }
                  \cup { [urls |-> urls] :
                           urls \in UNION { [ 1 .. n -> Urls ] :
                                               n \in 0 .. MaxArticles } } :
         LET input_type == Get(data, "input_type", "url")
             urls == Get(data, "urls", << >>)
             refused ==
                IF mongo = NoneValue
                THEN [code |-> 503, error |-> "Database not available"]
                ELSE IF data = NoneValue
                THEN [code |-> 400, error |-> "No data provided"]
                ELSE IF input_type = "url" /\ Len(urls) = 0
                THEN [code |-> 400, error |-> "No URLs provided"]
                ELSE IF Len(urls) = 0
                THEN [code |-> 400, error |-> "No articles could be processed"]
                ELSE NoneValue
             request == [op |-> "analyze_news", at |-> "scrape_article", data |-> data,
                         scraped |-> 0, articles |-> << >>, processed_articles |-> << >>,
                         faults |-> 0, timeline_data |-> NoneValue]
         IN  /\ Max(2, 1 + Len(urls)) <= slack
             /\ requests' = IF refused = NoneValue
                            THEN requests (+) SetToBag({ request })
                            ELSE requests
             /\ last' = IF refused = NoneValue
                        THEN [op |-> "analyze_news", data |-> data]
                        ELSE [op |-> "analyze_news", response |-> refused]
   /\ UNCHANGED << mongo, nlp_processor, script >>

\* app.py lines 115-122, one turn of the scraping loop:
\* article_data = news_scraper.scrape_article(url), kept when it is not None;
\* after the last turn lines 124-125
ScrapeArticle ==
   /\ \E request \in BagToSet(requests) :
         /\ request.op = "analyze_news"
         /\ request.at = "scrape_article"
         /\ \E article_data \in { scraped.article_data :
                                     scraped \in { call \in ScrapedRecords :
                                                      call.url = request.data.urls[request.scraped + 1] } } :
               LET articles == IF article_data # NoneValue
                               THEN Append(request.articles, article_data)
                               ELSE request.articles
                   turned == [request EXCEPT
                                 !.scraped = @ + 1,
                                 !.articles = articles,
                                 !.at = IF request.scraped + 1 = Len(request.data.urls)
                                        THEN "process_article" ELSE @]
               IN  IF turned.at = "process_article" /\ Len(articles) = 0
                   THEN /\ requests' = requests (-) SetToBag({ request })
                        /\ last' = [op |-> "scrape_article", request |-> request,
                                    article_data |-> article_data,
                                    response |-> [code |-> 400,
                                                  error |-> "No articles could be processed"]]
                   ELSE /\ requests' = (requests (-) SetToBag({ request }))
                                          (+) SetToBag({ turned })
                        /\ last' = [op |-> "scrape_article", request |-> request,
                                    article_data |-> article_data, turned |-> turned]
   /\ UNCHANGED << mongo, nlp_processor, script >>

\* app.py lines 128-131, one turn of the loop:
\* processed = nlp_processor.process_article(article), and lines 153-154 when
\* the call raises
ProcessArticle ==
   /\ \E request \in BagToSet(requests) :
         /\ request.op = "analyze_news"
         /\ request.at = "process_article"
         /\ \E throws \in { {} } \cup { { e } : e \in Extractors } :
               /\ throws # {} => request.faults < MaxFaults
               /\ \E outcome \in
                        IF nlp_processor = NLPProcessor
                        THEN UNION { call.outcomes :
                                        call \in { known \in ProcessedRecords :
                                                     /\ known.throws = throws
                                                     /\ known.article_data
                                                           = request.articles[
                                                                Len(request.processed_articles) + 1] } }
                        ELSE process_article(
                                nlp_processor,
                                request.articles[Len(request.processed_articles) + 1],
                                throws) :
                     LET position == Len(request.processed_articles) + 1
                         turned == [request EXCEPT
                                       !.articles[position] = outcome.article_data,
                                       !.processed_articles = Append(@, outcome.value),
                                       !.faults = @ + Cardinality(throws),
                                       !.at = IF position = Len(request.articles)
                                              THEN "generate_timeline" ELSE @]
                     IN  /\ nlp_processor' = outcome.self
                         /\ IF outcome.status = "ok"
                            THEN /\ requests' = (requests (-) SetToBag({ request }))
                                                   (+) SetToBag({ turned })
                                 /\ last' = [op |-> "process", self |-> nlp_processor,
                                             article |-> request.articles[position],
                                             position |-> position, throws |-> throws,
                                             outcome |-> outcome, turned |-> turned]
                            ELSE /\ requests' = requests (-) SetToBag({ request })
                                 /\ last' = [op |-> "process", self |-> nlp_processor,
                                             article |-> request.articles[position],
                                             throws |-> throws, outcome |-> outcome,
                                             response |-> [code |-> 500,
                                                           error |-> outcome.error]]
   /\ UNCHANGED << mongo, script >>

\* app.py line 134:
\* timeline_data = timeline_generator.generate_timeline(processed_articles),
\* which writes into the articles of the list, and lines 153-154 when the
\* call raises
GenerateTimeline ==
   /\ \E request \in BagToSet(requests) :
         /\ request.op = "analyze_news"
         /\ request.at = "generate_timeline"
         /\ \E outcome \in generate_timeline(request.processed_articles) :
               IF outcome.status = "ok"
               THEN /\ requests' = (requests (-) SetToBag({ request }))
                                      (+) SetToBag({ [request EXCEPT
                                                         !.processed_articles = outcome.articles,
                                                         !.timeline_data = outcome.value,
                                                         !.at = "insert_one"] })
                    /\ last' = [op |-> "timeline", data |-> request.data,
                                before |-> request.processed_articles,
                                outcome |-> outcome]
               ELSE /\ requests' = requests (-) SetToBag({ request })
                    /\ last' = [op |-> "timeline",
                                outcome |-> [status |-> outcome.status,
                                             error |-> outcome.error],
                                response |-> [code |-> 500, error |-> outcome.error]]
   /\ UNCHANGED << mongo, nlp_processor, script >>

\* app.py lines 156-169, compare_articles up to the first call of the store:
\* the checks of the request
CompareArticles ==
   /\ \E data \in { NoneValue, [article1_id |-> Str(1, 24)],
                    [article1_id |-> Str(1, 24), article2_id |-> Str(9, 1)] } :
         LET refused ==
                IF data = NoneValue
                THEN [code |-> 400, error |-> "No data provided"]
                ELSE IF "article1_id" \notin DOMAIN data \/ "article2_id" \notin DOMAIN data
                THEN [code |-> 400, error |-> "Both article IDs are required"]
                ELSE NoneValue
             request == [op |-> "compare_articles", at |-> "article1", data |-> data,
                         article1 |-> NoneValue, article2 |-> NoneValue,
                         similarity_result |-> NoneValue]
         IN  /\ Work + 2 <= MaxWork
             /\ requests' = IF refused = NoneValue
                            THEN requests (+) SetToBag({ request })
                            ELSE requests
             /\ last' = IF refused = NoneValue
                        THEN [op |-> "compare_articles", data |-> data]
                        ELSE [op |-> "compare_articles", response |-> refused]
   /\ UNCHANGED << mongo, nlp_processor, script >>

\* app.py lines 172-179: mongo.db.articles.find_one({'_id': article1_id}) or
\* mongo.db.articles.find_one({'_id': article2_id}), the ids being the
\* strings of the JSON body; after the second one the test of lines 175-176
\* and similarity_analyzer.compare_articles(article1, article2); lines
\* 195-196 when mongo is None or the comparison raises
FindOne ==
   /\ \E request \in BagToSet(requests) :
         /\ request.op = "compare_articles"
         /\ request.at \in { "article1", "article2" }
         /\ LET find_one(id) ==
                   LET found == SelectSeq(mongo.articles,
                                          LAMBDA document :
                                             document._id = [kind |-> "str", value |-> id])
                   IN  IF Len(found) = 0 THEN NoneValue ELSE found[1]
                Comparisons(article1, article2) ==
                   { compare_articles(article1, article2, differences) :
                        differences \in find_content_differences(
                                           Get(article1, "content", << >>),
                                           Get(article2, "content", << >>),
                                           Get(article1, "language", "th")) }
                Found ==
                   IF request.at = "article1"
                   THEN { [request EXCEPT !.article1 = find_one(request.data.article1_id),
                                          !.at = "article2"] }
                   ELSE { [request EXCEPT !.article2 = find_one(request.data.article2_id)] }
                Compared(found) ==
                   IF request.at = "article1" \/ found.article1 = NoneValue
                      \/ found.article2 = NoneValue
                   THEN { found }
                   ELSE { [found EXCEPT !.similarity_result = outcome, !.at = "insert_one"] :
                             outcome \in Comparisons(found.article1, found.article2) }
                Response(turned) ==
                   IF request.at = "article1" THEN NoneValue
                   ELSE IF turned.at = "article2"
                   THEN [code |-> 404, error |-> "One or both articles not found"]
                   ELSE IF turned.similarity_result.status = "raised"
                   THEN [code |-> 500, error |-> turned.similarity_result.error]
                   ELSE NoneValue
            IN  IF mongo = NoneValue
                THEN /\ requests' = requests (-) SetToBag({ request })
                     /\ last' = [op |-> "find_one", request |-> request,
                                 response |-> [code |-> 500, error |-> "AttributeError"]]
                ELSE \E turned \in UNION { Compared(found) : found \in Found } :
                        IF Response(turned) = NoneValue
                        THEN /\ requests' = (requests (-) SetToBag({ request }))
                                               (+) SetToBag({ turned })
                             /\ last' = [op |-> "find_one", request |-> request,
                                         turned |-> turned]
                        ELSE /\ requests' = requests (-) SetToBag({ request })
                             /\ last' = [op |-> "find_one", request |-> request,
                                         response |-> Response(turned)]
   /\ UNCHANGED << mongo, nlp_processor, script >>

\* app.py lines 137-151, mongo.db.analyses.insert_one(analysis_doc) and the
\* response of analyze_news; lines 182-193,
\* mongo.db.comparisons.insert_one(...) and the response of
\* compare_articles; lines 153-154 and 195-196 when the store raises
InsertOne ==
   /\ \E request \in BagToSet(requests) :
         /\ request.at = "insert_one"
         /\ LET document ==
                   IF request.op = "analyze_news"
                   THEN [articles |-> request.processed_articles,
                         timeline |-> request.timeline_data,
                         created_at |-> UtcNow,
                         input_type |-> Get(request.data, "input_type", "url"),
                         urls |-> Get(request.data, "urls", << >>)]
                   ELSE [article1_id |-> request.data.article1_id,
                         article2_id |-> request.data.article2_id,
                         similarity_result |-> request.similarity_result.value,
                         created_at |-> UtcNow]
                collection == IF request.op = "analyze_news" THEN "analyses"
                              ELSE "comparisons"
                Response(inserted_id) ==
                   IF request.op = "analyze_news"
                   THEN [code |-> 200, analysis_id |-> inserted_id,
                         articles |-> request.processed_articles,
                         timeline |-> request.timeline_data, status |-> "success"]
                   ELSE [code |-> 200, comparison_id |-> inserted_id,
                         similarity_result |-> request.similarity_result.value,
                         status |-> "success"]
            IN  \E outcome \in { insert_one(mongo, collection, document) } :
                   IF outcome.status = "ok"
                   THEN /\ mongo' = outcome.value
                        /\ last' = [op |-> "insert_one", request |-> request,
                                    response |->
                                       Response(outcome.value[collection][
                                                   Len(outcome.value[collection])]._id.value)]
                   ELSE /\ mongo' = mongo
                        /\ last' = [op |-> "insert_one", request |-> request,
                                    response |-> [code |-> 500, error |-> outcome.error]]
         /\ requests' = requests (-) SetToBag({ request })
   /\ UNCHANGED << nlp_processor, script >>

\* init_mongodb.py lines 34-179, initialize_database(client) on the store of
\* the application, one call of the store per step: create_index (an
\* OperationFailure is caught, lines 152-156), count_documents, and
\* insert_one of the sample document when the collection was counted empty
\* (lines 159-160); a DuplicateKeyError ends the function (lines 177-179).
\* When it returns True, main calls test_database_operations (lines
\* 239-243).
InitializeDatabase ==
   LET \* the calls of initialize_database on the store, in the order of lines
       \* 132-173: for each collection of collections_config the create_index calls
       \* of lines 139-151, count_documents of line 159 and insert_one of line 160;
       \* then count_documents of line 172 for each collection
       initialize_database_calls ==
          LET Setup(config) ==
                 [ k \in DOMAIN config.indexes |->
                     [call |-> "create_index", collection |-> config.name,
                      index |-> config.indexes[k]] ]
                 \o << [call |-> "count_documents", collection |-> config.name, line |-> 159],
                       [call |-> "insert_one", collection |-> config.name,
                        document |-> config.sample_doc] >>
              Statistics(config) ==
                 << [call |-> "count_documents", collection |-> config.name, line |-> 172] >>
          IN  FlattenSeq([ k \in DOMAIN collections_config |-> Setup(collections_config[k]) ])
              \o FlattenSeq([ k \in DOMAIN collections_config |->
                                 Statistics(collections_config[k]) ])
   IN  /\ mongo # NoneValue
       /\ IF script = NoneValue
          THEN /\ Work + (IF Len(mongo.indexes) > 0 THEN 0 ELSE 2) <= MaxWork
               /\ mongo.inserted + Len(collections_config) + 1 <= MaxInserted
          ELSE script.function = "initialize_database"
       /\ LET now == IF script = NoneValue THEN 1 ELSE script.call
              call == initialize_database_calls[now]
              Then(next) ==
                 IF next > Len(initialize_database_calls)
                 THEN [function |-> "test_database_operations", call |-> 1]
                 ELSE [function |-> "initialize_database", call |-> next]
          IN  IF call.call = "create_index"
              THEN /\ mongo' = create_index(mongo, call.collection, call.index)
                   /\ script' = Then(now + 1)
                   /\ last' = [op |-> "initialize_database", call |-> call]
              ELSE IF call.call = "count_documents"
              THEN /\ mongo' = mongo
                   /\ script' = IF call.line = 159 /\ Len(mongo[call.collection]) # 0
                                THEN Then(now + 2) ELSE Then(now + 1)
                   /\ last' = [op |-> "initialize_database", call |-> call,
                               count |-> Len(mongo[call.collection])]
              ELSE \E outcome \in { insert_one(mongo, call.collection, call.document) } :
                      /\ mongo' = IF outcome.status = "ok" THEN outcome.value ELSE mongo
                      /\ script' = IF outcome.status = "ok" THEN Then(now + 1) ELSE NoneValue
                      /\ last' = [op |-> "initialize_database", call |-> call,
                                  status |-> outcome.status]
       /\ UNCHANGED << nlp_processor, requests >>

\* init_mongodb.py lines 181-224, test_database_operations(client), one call
\* of the store per step: insert_one (line 195), find_one (line 199),
\* update_one (lines 206-209), delete_one (line 213) and drop (line 217) on
\* test_collection
TestDatabaseOperations ==
   /\ script # NoneValue
   /\ script.function = "test_database_operations"
   /\ LET test_doc == [test |-> TRUE,
                       message |-> << "D", "a", "t", "a", "b", "a", "s", "e", " ", "t", "e", "s", "t", " ", "s", "u", "c", "c", "e", "s", "s", "f", "u", "l" >>,
                       timestamp |-> UtcNow]
          tests == { k \in DOMAIN mongo.test_collection :
                        Get(mongo.test_collection[k], "test", FALSE) = TRUE }
          first == CHOOSE k \in tests : \A l \in tests : k <= l
      IN  /\ mongo' =
                IF script.call = 1
                THEN insert_one(mongo, "test_collection", test_doc).value
                ELSE IF script.call = 3 /\ tests # {}
                THEN [mongo EXCEPT !.test_collection[first] = [updated |-> TRUE] @@ @]
                ELSE IF script.call = 4 /\ tests # {}
                THEN [mongo EXCEPT !.test_collection =
                                      SubSeq(@, 1, first - 1) \o SubSeq(@, first + 1, Len(@))]
                ELSE IF script.call = 5
                THEN [mongo EXCEPT !.test_collection = << >>]
                ELSE mongo
          /\ script' = IF script.call = 5 THEN NoneValue
                       ELSE [script EXCEPT !.call = @ + 1]
          /\ last' = [op |-> "test_database_operations", call |-> script.call]
   /\ UNCHANGED << nlp_processor, requests >>

Next ==
   \/ AnalyzeNews
   \/ ScrapeArticle
   \/ ProcessArticle
   \/ GenerateTimeline
   \/ CompareArticles
   \/ FindOne
   \/ InsertOne
   \/ InitializeDatabase
   \/ TestDatabaseOperations

Spec == Init /\ [][Next]_vars

(***************************************************************************)
(* Second specification: the operations of the comparator, the enricher    *)
(* and the timeline generator applied to contents, entity mappings,        *)
(* keyword lists, texts and enriched articles drawn from bounded sets.     *)
(***************************************************************************)
\* contents: empty; punctuation only; one-letter words only; sentences of 31
\* letters (longer than 30) and of 11 to 13 letters (longer than 10)
SampleContents ==
   LET Long(c) == [ i \in 1..31 |-> c ]
       Short(c) == [ i \in 1..11 |-> c ]
       Sentences(parts) == JoinWith(parts, << ".", " " >>)
   IN  { << >>,
         << "?", "!" >>,
         << "a", " ", "b" >>,
         Sentences(<< Long("a"), Long("b") >>),
         Sentences(<< Long("b"), Long("a"), Long("b") >>),
         Sentences(<< << "g", "o", "o", "d", " ", "b", "a", "d", " ", "g", "o", "o", "d" >>,
                      Long("u") >>),
         Sentences(<< Short("p"), Short("q"), Short("r"), Short("s"), Short("t"),
                      Long("v") >>),
         Sentences(<< Long("c"), Long("d"), Long("e"), Long("f"), Long("g"),
                      Long("h") >>) }

\* keyword lists: {keyword, score} entries, score in 1/Scale, and a list of
\* plain strings (init_mongodb.py line 60)
SampleKeywords ==
   LET Keyword(keyword, score) == [keyword |-> keyword, score |-> score]
       PlainString(keyword) == [kind |-> "str", value |-> keyword]
   IN  { << >>,
         << PlainString(<< "k", "1" >>), PlainString(<< "k", "2" >>),
            PlainString(<< "k", "1" >>) >>,
         << Keyword(<< "k", "1" >>, 900), Keyword(<< "k", "2" >>, 500) >>,
         << Keyword(<< "k", "2" >>, 700), Keyword(<< "k", "1" >>, 100) >>,
         << Keyword(<< "k", "1" >>, 300), Keyword(<< "k", "3" >>, 300),
            Keyword(<< " ", " " >>, 200) >>,
         << Keyword(<< " " >>, 100) >>,
         [ k \in 1..10 |-> Keyword(<< "w" >> \o Str(k, 1), 100) ] }

\* enriched articles: two English ones with the same sentences, entities and
\* keyword strings; one from a source outside the credibility table, without
\* entities and keywords; one without source and content, with forty entities
\* and ten keywords; one without content and keywords that has the entities of
\* the first (which it matches with the score 0.3); one of a single word
\* without entities that has the keywords of the first (and matches itself
\* with the score 0.7)
SampleArticles ==
   LET Long(c) == [ i \in 1..31 |-> c ]
       Enriched(n, language, content, entities, keywords, word_count) ==
          [_id |-> n, language |-> language, content |-> content,
           entities |-> entities, keywords |-> keywords, word_count |-> word_count]
       From(source, article) == [ f \in DOMAIN article \cup { "source" } |->
                                    IF f = "source" THEN source ELSE article[f] ]
       OfParts(a, b, u, good, entities, keywords1, keywords2, many) ==
          { From(<< "B", "a", "n", "g", "k", "o", "k", " ", "P", "o", "s", "t" >>,
                 Enriched(1, "en", JoinWith(<< a, b >>, << ".", " " >>),
                          entities, keywords1, 2)),
            From(<< "T", "h", "a", "i", " ", "P", "B", "S" >>,
                 Enriched(2, "en", JoinWith(<< b, a, b >>, << ".", " " >>),
                          entities, keywords2, 3)),
            From(<< "e", "x", "a", "m", "p", "l", "e", ".", "c", "o", "m" >>,
                 Enriched(3, "en", JoinWith(<< good, u >>, << ".", " " >>),
                          [PERSON |-> << >>, ORGANIZATION |-> << >>, LOCATION |-> << >>,
                           MISC |-> << >>],
                          << >>, 1500)),
            Enriched(4, "mixed", << >>,
                     [PERSON |-> [ i \in 1..20 |-> << "e" >> \o Str(i, 1) ],
                      ORGANIZATION |-> << >>,
                      LOCATION |-> [ i \in 1..20 |-> << "e" >> \o Str(i, 1) ],
                      MISC |-> << >>],
                     many, 0),
            Enriched(5, "en", << >>, entities, << >>, 0),
            Enriched(6, "en", u,
                     [PERSON |-> << >>, ORGANIZATION |-> << >>, LOCATION |-> << >>,
                      MISC |-> << >>],
                     keywords1, 1),
            Enriched(7, "en", u, entities, keywords1, 1) }
   IN  OfParts(Long("a"), Long("b"), Long("u"),
               << "g", "o", "o", "d", " ", "b", "a", "d", " ", "g", "o", "o", "d" >>,
               [PERSON |-> << << "x" >>, << "y" >> >>, ORGANIZATION |-> << << "o" >> >>,
                LOCATION |-> << >>, MISC |-> << >>],
               << [keyword |-> << "k", "1" >>, score |-> 900],
                  [keyword |-> << "k", "2" >>, score |-> 500] >>,
               << [keyword |-> << "k", "2" >>, score |-> 700],
                  [keyword |-> << "k", "1" >>, score |-> 100] >>,
               [ k \in 1..10 |-> [keyword |-> << "w" >> \o Str(k, 1), score |-> 100] ])

\* the lists of at most MaxArticles sample articles
SampleLists == UNION { [ 1..n -> SampleArticles ] : n \in 0..MaxArticles }

FunctionInit ==
   /\ mongo = NoneValue
   /\ nlp_processor = NLPProcessor
   /\ requests = EmptyBag
   /\ script = NoneValue
   /\ last = [op |-> "init"]

\* _calculate_content_similarity on two contents
ContentSimilarity ==
   /\ last.op = "init"
   /\ \E content1, content2 \in SampleContents, language \in { "th", "en", "mixed" } :
         \E outcome \in { calculate_content_similarity(content1, content2, language) } :
            last' = [op |-> "content_similarity", content1 |-> content1,
                     content2 |-> content2, language |-> language, outcome |-> outcome]
   /\ UNCHANGED << mongo, nlp_processor, requests, script >>

\* _compare_entities on two entity mappings
CompareEntities ==
   LET \* entity mappings as _extract_entities builds them (duplicate-free lists per
       \* type), mappings that lack some or all of the types, and one with a type
       \* that _extract_entities does not write, and the list of the sample document
       \* (init_mongodb.py line 61)
       SampleEntities ==
          { [PERSON |-> << >>, ORGANIZATION |-> << >>, LOCATION |-> << >>, MISC |-> << >>],
            [PERSON |-> << << "x" >>, << "y" >> >>, ORGANIZATION |-> << << "o" >> >>,
             LOCATION |-> << >>, MISC |-> << >>],
            [PERSON |-> << << "x" >> >>, ORGANIZATION |-> << >>, LOCATION |-> << << "z" >> >>,
             MISC |-> << >>],
            [PERSON |-> << << "x" >> >>, LOCATION |-> << << "x" >> >>],
            [PERSON |-> [ i \in 1..6 |-> << "e" >> \o Str(i, 1) ], ORGANIZATION |-> << >>,
             LOCATION |-> [ i \in 1..6 |-> << "e" >> \o Str(7 - i, 1) ], MISC |-> << >>],
            [EVENT |-> << << "x" >>, << "v" >> >>],
            [kind |-> "list", value |-> << << "x" >>, << "y" >> >>],
            << >> }
   IN  /\ last.op = "init"
       /\ \E entities1, entities2 \in SampleEntities :
             \E outcome \in { compare_entities(entities1, entities2) } :
                last' = [op |-> "entities", status |-> outcome.status,
                         entities1 |-> entities1, entities2 |-> entities2,
                         outcome |-> outcome]
       /\ UNCHANGED << mongo, nlp_processor, requests, script >>

\* _compare_keywords on two keyword lists
CompareKeywords ==
   /\ last.op = "init"
   /\ \E keywords1, keywords2 \in SampleKeywords :
         \E outcome \in { compare_keywords(keywords1, keywords2) } :
            last' = [op |-> "keywords", keywords1 |-> keywords1,
                     keywords2 |-> keywords2, outcome |-> outcome]
   /\ UNCHANGED << mongo, nlp_processor, requests, script >>

\* _analyze_sentiment_comparison on two contents
SentimentComparison ==
   /\ last.op = "init"
   /\ \E content1, content2 \in SampleContents, language \in { "th", "en", "mixed" } :
         \E outcome \in { analyze_sentiment_comparison(content1, content2, language) } :
            last' = [op |-> "sentiment", status |-> outcome.status,
                     content1 |-> content1, content2 |-> content2,
                     language |-> language, outcome |-> outcome]
   /\ UNCHANGED << mongo, nlp_processor, requests, script >>

\* _find_content_differences on two contents.  A content with more than five
\* long sentences, whose first five can be taken in hundreds of orders, stands
\* next to itself or to the empty content.
ContentDifferences ==
   LET ManyLong(content) ==
          Cardinality({ i \in DOMAIN split_sentences(content, "en") :
                          Len(split_sentences(content, "en")[i]) > 30 }) > 5
       Paired(content1, content2) ==
          /\ ManyLong(content1) => content2 \in { << >>, content1 }
          /\ ManyLong(content2) => content1 \in { << >>, content2 }
   IN  /\ last.op = "init"
       /\ \E content1, content2 \in SampleContents, language \in { "th", "en", "mixed" } :
             /\ Paired(content1, content2)
             /\ \E outcome \in find_content_differences(content1, content2, language) :
                   last' = [op |-> "differences", content1 |-> content1,
                            content2 |-> content2, language |-> language,
                            outcome |-> outcome]
       /\ UNCHANGED << mongo, nlp_processor, requests, script >>

\* _calculate_event_intensity on a group of articles
EventIntensity ==
   /\ last.op = "init"
   /\ \E group \in SampleLists :
         \E outcome \in { calculate_event_intensity(group) } :
            last' = [op |-> "intensity", group |-> group, outcome |-> outcome]
   /\ UNCHANGED << mongo, nlp_processor, requests, script >>

\* the outcomes of _find_content_differences in the pairwise comparisons of
\* compare_multiple_articles, one per pair
RECURSIVE DifferencesOfPairs(_, _)
DifferencesOfPairs(list, pairs) ==
   IF Len(pairs) = 0 THEN { << >> }
   ELSE { << d >> \o rest :
             d \in find_content_differences(
                      Get(list[Head(pairs)[1]], "content", << >>),
                      Get(list[Head(pairs)[2]], "content", << >>),
                      Get(list[Head(pairs)[1]], "language", "th")),
             rest \in DifferencesOfPairs(list, Tail(pairs)) }

\* compare_multiple_articles on a list of articles
CompareMultiple ==
   /\ last.op = "init"
   /\ \E list \in SampleLists :
         \E differences \in DifferencesOfPairs(list, PairsOf(Len(list))) :
            \E outcome \in compare_multiple_articles(list, differences) :
               last' = [op |-> "compare_multiple", status |-> outcome.status,
                        list |-> list, outcome |-> outcome]
   /\ UNCHANGED << mongo, nlp_processor, requests, script >>

(***************************************************************************)
(* The operations of the enricher applied to texts drawn from a bounded    *)
(* set.                                                                    *)
(***************************************************************************)
\* texts: empty; English words with stop words, short words and a repeated
\* word; Thai consonants only; a Thai vowel letter alone; a Thai word written
\* with vowels beside a Latin word; as many Thai consonants as Latin letters;
\* no letter at all; Thai words with a stop word, a single letter and a repeated
\* word; Thai with two organizations, one repeated, and a person; English
\* stop words only; eleven different words
SampleTexts ==
   { << >>,
     << "T", "h", "e", " ", "c", "a", "t", " ", "a", "n", "d", " ", "t", "h", "e", " ",
        "C", "a", "t", " ", "o", "x", " ", "d", "o", "g" >>,
     << "U0E01", "U0E23", "U0E21", "U0E23", "U0E16", " ", "U0E19", "U0E01" >>,
     << "U0E32" >>,
     << "U0E40", "U0E01", "U0E32", "U0E30", " ", "a", "b", "c" >>,
     << "a", "b", " ", "U0E01", "U0E23" >>,
     << "1", "2", " ", "!" >>,
     << "U0E19", "U0E01", "U0E02", "U0E2D", "U0E07", "U0E01", "U0E23", "U0E21", " ",
        "U0E01", " ", "U0E19", "U0E01" >>,
     << "U0E01", "U0E23", "U0E21", "U0E23", "U0E16", " ", ".", "U0E01", "U0E23", "U0E21",
        "U0E23", "U0E16", ".", " ", "U0E19", "U0E32", "U0E22", "U0E19", "U0E01", " ",
        "U0E02", ".", "U0E01", "U0E23", "U0E21", "U0E19", "U0E01" >>,
     << "t", "h", "e", " ", "a", "n", "d", " ", "o", "f" >>,
     << "a", "a", " ", "b", "b", " ", "c", "c", " ", "d", "d", " ", "e", "e", " ", "f",
        "f", " ", "g", "g", " ", "h", "h", " ", "i", "i", " ", "j", "j", " ", "k",
        "k", " ", "a", "a" >> }

\* _detect_language on a text
DetectLanguage ==
   /\ last.op = "init"
   /\ \E text \in SampleTexts :
         \E outcome \in { detect_language(text) } :
            last' = [op |-> "detect_language", text |-> text, outcome |-> outcome]
   /\ UNCHANGED << mongo, nlp_processor, requests, script >>

\* _tokenize_text on a text and a language
TokenizeText ==
   /\ last.op = "init"
   /\ \E text \in SampleTexts, language \in { "th", "en", "mixed" } :
         \E outcome \in { tokenize_text(nlp_processor, text, language) } :
            last' = [op |-> "tokenize", text |-> text, language |-> language,
                     outcome |-> outcome]
   /\ UNCHANGED << mongo, nlp_processor, requests, script >>

\* _extract_entities on a text and a language; the list of each type is one
\* of the orders list(set(...)) can give
ExtractEntities ==
   /\ last.op = "init"
   /\ \E text \in SampleTexts, language \in { "th", "en", "mixed" } :
         \E outcome \in extract_entities(nlp_processor, text, language) :
            last' = [op |-> "extract_entities", text |-> text, language |-> language,
                     outcome |-> outcome]
   /\ UNCHANGED << mongo, nlp_processor, requests, script >>

\* _extract_keywords on a text, a language and a number of keywords; the
\* library calls of the try block succeed or one of them raises
ExtractKeywords ==
   /\ last.op = "init"
   /\ \E text \in SampleTexts, language \in { "th", "en", "mixed" },
         max_keywords \in { 3, default_max_keywords }, library_raises \in BOOLEAN :
         \E outcome \in { extract_keywords(nlp_processor, text, language, max_keywords,
                                            library_raises) } :
            last' = [op |-> "extract_keywords", text |-> text, language |-> language,
                     max_keywords |-> max_keywords, library_raises |-> library_raises,
                     outcome |-> outcome]
   /\ UNCHANGED << mongo, nlp_processor, requests, script >>

\* _extract_events on a content and a language (the title is not used)
ExtractEvents ==
   LET \* contents: one event; six events, the one standing first in the text matched
       \* by a later pattern; an event more than 50 characters from either end, a
       \* blank standing 50 characters before it; a Thai event followed by a blank;
       \* no event; empty
       SampleEventContents ==
          { << "P", "M", " ", "A", "n", "n", "o", "u", "n", "c", "e", "d", " ", "p", "l", "a",
               "n" >>,
            << "H", "e", " ", "d", "i", "e", "d", " ", "h", "e", "r", "e", ".", " ", "a", "n",
               "n", "o", "u", "n", "c", "e", "d", " ", "a", "1", " ", "a", "n", "n", "o",
               "u", "n", "c", "e", "d", " ", "a", "2", " ", "a", "n", "n", "o", "u", "n",
               "c", "e", "d", " ", "a", "3", " ", "a", "n", "n", "o", "u", "n", "c", "e",
               "d", " ", "a", "4", " ", "a", "n", "n", "o", "u", "n", "c", "e", "d", " ",
               "a", "5" >>,
            << "a", "b", "c", " ", "a", "b", "c", " ", "a", "b", "c", " ", "a", "b", "c", " ",
               "a", "b", "c", " ", "a", "b", "c", " ", "a", "b", "c", " ", "a", "b", "c",
               " ", "a", "b", "c", " ", "a", "b", "c", " ", "a", "b", "c", " ", "a", "b",
               "c", " ", "a", "b", "c", " ", "a", "s", "i", "g", "n", "e", "d", " ", "d",
               "e", "a", "l", " ", "x", "y", "z", " ", "x", "y", "z", " ", "x", "y", "z",
               " ", "x", "y", "z", " ", "x", "y", "z", " ", "x", "y", "z", " ", "x", "y",
               "z", " ", "x", "y", "z", " ", "x", "y", "z", " ", "x", "y", "z", " ", "x",
               "y", "z", " ", "x", "y", "z", " ", "x", "y", "z" >>,
            << "U0E19", "U0E01", " ", "U0E1B", "U0E23", "U0E30", "U0E01", "U0E32", "U0E28",
               "U0E23", "U0E16", " " >>,
            << "n", "o", " ", "e", "v", "e", "n", "t", " ", "h", "e", "r", "e" >>,
            << >> }
   IN  /\ last.op = "init"
       /\ \E content \in SampleEventContents, language \in { "th", "en", "mixed" } :
             \E outcome \in { extract_events(content, << >>, language) } :
                last' = [op |-> "extract_events", content |-> content,
                         language |-> language, outcome |-> outcome]
       /\ UNCHANGED << mongo, nlp_processor, requests, script >>

\* enriched articles with a date for the timeline: two of one day and one
\* source, the first with 16 entities, the two together with 17 entities and
\* 12 keywords; a third of the next day and another source
SampleDatedArticles ==
   LET Named(prefix, numbers) ==
          [ k \in DOMAIN numbers |-> << prefix >> \o Str(numbers[k], 1) ]
       Upto(a, b) == [ k \in 1 .. (b - a + 1) |-> a + k - 1 ]
       Scored(numbers, first) ==
          [ k \in DOMAIN numbers |->
             [keyword |-> << "k" >> \o Str(numbers[k], 1), score |-> first - 50 * (k - 1)] ]
       Dated(n, source, day, persons, organizations, keywords) ==
          [url |-> << "h", "t", "t", "p", ":", "/", "/", "x", "/" >> \o Str(n, 1),
           source |-> source,
           title |-> << "t", "i", "t", "l", "e", " " >> \o Str(n, 1),
           content |-> << >>,
           published_date |-> DateTime(2024, 1, day, 10),
           scraped_at |-> ScrapedAt,
           author |-> NoneValue,
           tags |-> << >>]
          @@ [language |-> "mixed", tokens |-> << >>,
              entities |-> [PERSON |-> persons, ORGANIZATION |-> organizations,
                            LOCATION |-> << >>, MISC |-> << >>],
              keywords |-> keywords, events |-> << >>, content_dates |-> << >>,
              processed_at |-> UtcNow, word_count |-> 0, sentence_count |-> 1]
   IN  { Dated(1, << "B", "a", "n", "g", "k", "o", "k", " ", "P", "o", "s", "t" >>, 1,
               Named("e", Upto(1, 9)), Named("e", Upto(10, 16)),
               Scored(<< 1, 2, 3, 4, 5, 6 >>, 600)),
         Dated(2, << "B", "a", "n", "g", "k", "o", "k", " ", "P", "o", "s", "t" >>, 1,
               Named("e", << 17, 1 >>), Named("e", << 16 >>),
               Scored(<< 12, 6, 7, 8, 9, 10, 11, 5 >>, 450)),
         Dated(3, << "T", "h", "a", "i", " ", "P", "B", "S" >>, 2,
               Named("e", << 17 >>), Named("e", << 16 >>),
               Scored(<< 12, 1 >>, 300)) }

\* the articles the enricher makes of the records of the scraper
EnrichedArticles ==
   { outcome.value :
        outcome \in UNION { process_article(NLPProcessor, scrape_article(url), {}) :
                               url \in { u \in Urls : scrape_article(u) # NoneValue } } }

\* enriched articles without any date: those without a published date and
\* without a date in their content, taken without their scraped_at
UndatedArticles ==
   { [ article EXCEPT !["scraped_at"] = NoneValue ] :
        article \in { enriched \in EnrichedArticles :
                        /\ enriched["published_date"] = NoneValue
                        /\ enriched["content_dates"] = << >> } }

\* compare_articles on two enriched articles
CompareEnriched ==
   /\ last.op = "init"
   /\ \E article1, article2 \in EnrichedArticles \cup UndatedArticles :
         \E differences \in find_content_differences(
                               Get(article1, "content", << >>),
                               Get(article2, "content", << >>),
                               Get(article1, "language", "th")) :
            \E outcome \in { compare_articles(article1, article2, differences) } :
               last' = [op |-> "compare_articles", status |-> outcome.status,
                        article1 |-> article1, article2 |-> article2,
                        outcome |-> outcome]
   /\ UNCHANGED << mongo, nlp_processor, requests, script >>

\* generate_timeline on a list of at most MaxArticles articles, dated or
\* undated; the list is never empty (app.py lines 124-125)
SampleTimeline ==
   /\ last.op = "init"
   /\ \E list \in UNION { [ 1 .. n -> SampleDatedArticles \cup UndatedArticles ] :
                            n \in 1 .. MaxArticles } :
         \E outcome \in generate_timeline(list) :
            last' = [op |-> "sample_timeline", status |-> outcome.status,
                     list |-> list, outcome |-> outcome]
   /\ UNCHANGED << mongo, nlp_processor, requests, script >>

FunctionNext ==
   \/ ContentSimilarity
   \/ CompareEntities
   \/ CompareKeywords
   \/ SentimentComparison
   \/ ContentDifferences
   \/ EventIntensity
   \/ CompareMultiple
   \/ DetectLanguage
   \/ TokenizeText
   \/ ExtractEntities
   \/ ExtractKeywords
   \/ ExtractEvents
   \/ CompareEnriched
   \/ SampleTimeline

FunctionSpec == FunctionInit /\ [][FunctionNext]_vars

(***************************************************************************)
(* Properties of SimilarityAnalyzer.compare_articles.  Scores are in       *)
(* 1/Scale; FloatTol is the rounding allowance of the fixed-point          *)
(* arithmetic when a property says "up to rounding".                       *)
(***************************************************************************)
Compared == last.op = "compare_articles"

ComparedOk == Compared /\ last.status = "ok"

\* C1: compare is symmetric in its overall score: whenever compare_articles(a, b)
\* and compare_articles(b, a) both return, their similarity_score agree up to rounding
C1_SymmetricScore ==
   ComparedOk =>
      \A differences \in find_content_differences(
                            Get(last.article2, "content", << >>),
                            Get(last.article1, "content", << >>),
                            Get(last.article2, "language", "th")) :
         LET swapped == compare_articles(last.article2, last.article1, differences)
         IN  swapped.status = "ok" =>
                Abs(swapped.value.similarity_score
                    - last.outcome.value.similarity_score) <= FloatTol

\* C2: two articles with identical non-empty contents get content_similarity 1.0
\* (up to rounding) and similarity_score of at least 0.95 whenever the
\* comparison returns
C2_IdenticalContent ==
   ( /\ ComparedOk
     /\ last.article1["content"] = last.article2["content"]
     /\ Len(last.article1["content"]) > 0 )
   => /\ last.outcome.value.content_similarity >= Scale - FloatTol
      /\ last.outcome.value.similarity_score * 100 >= 95 * Scale

\* C3: the returned similarity_score is 0.5 * content_similarity
\* + 0.3 * entity_comparison.similarity + 0.2 * keyword_comparison.similarity
\* of the same result, clamped to [0, 1], and so lies within [0, 1]
C3_WeightedSum ==
   ComparedOk =>
      LET result == last.outcome.value
          weighted == 5 * result.content_similarity
                      + 3 * result.entity_comparison.similarity
                      + 2 * result.keyword_comparison.similarity
      IN  /\ result.similarity_score \in 0 .. Scale
          /\ weighted < 0 => result.similarity_score = 0
          /\ weighted > 10 * Scale => result.similarity_score = Scale
          /\ weighted \in 0 .. (10 * Scale) =>
                Abs(10 * result.similarity_score - weighted) < 10

\* a comparison of two different articles whose three component similarities
\* are all positive and whose overall score is strictly between 0 and 1
C3_Witness ==
   /\ ComparedOk
   /\ last.article1["content"] # last.article2["content"]
   /\ last.outcome.value.content_similarity > 0
   /\ last.outcome.value.entity_comparison.similarity > 0
   /\ last.outcome.value.keyword_comparison.similarity > 0
   /\ last.outcome.value.similarity_score > 0
   /\ last.outcome.value.similarity_score < Scale

\* C4: compare_articles never raises: every comparison of two enriched
\* articles returns a result
C4_NeverRaises == Compared => last.status = "ok"

(***************************************************************************)
(* Properties of TimelineGenerator.generate_timeline in an analysis        *)
(* request, stated on the state right after the call: last.before is the   *)
(* list handed in, last.outcome.articles the list as the call leaves it.   *)
(***************************************************************************)
TimelineDone == last.op = "timeline"

TimelineOk == TimelineDone /\ last.outcome.status = "ok"

\* the date the priority rule published_date, content_dates[0], scraped_at
\* assigns to an article as the enricher produced it
HasPublished(article) == ~ IsNone(article["published_date"])

HasContentDate(article) == Len(article["content_dates"]) > 0

HasScraped(article) == ~ IsNone(article["scraped_at"])

Undated(article) ==
   /\ ~ HasPublished(article)
   /\ ~ HasContentDate(article)
   /\ ~ HasScraped(article)

ExpectedDate(article) ==
   IF HasPublished(article) THEN article["published_date"]
   ELSE IF HasContentDate(article) THEN article["content_dates"][1]["parsed_date"]
   ELSE article["scraped_at"]

DayOf(article) == strftime_ymd(ExpectedDate(article))

DatedIn(list) == { i \in DOMAIN list : ~ Undated(list[i]) }

DatedPositions == DatedIn(last.before)

\* C5: the events returned by generate_timeline are strictly ascending in
\* their calendar-day key
C5_EventsAscending ==
   TimelineOk =>
      LET events == last.outcome.value.events
      IN  \A k \in 1 .. (Len(events) - 1) : StrLess(events[k].date, events[k + 1].date)

\* C6: in every timeline that generate_timeline returns, grouping by calendar
\* day is exact: as many events as distinct days among the dated articles, no two events with the same date, every dated
\* article referenced by exactly one event (that of its day), and each
\* article_count equal to the number of articles of that day
C6_GroupingExact ==
   TimelineOk =>
      LET events == last.outcome.value.events
          groups == last.outcome.groups
          days == { DayOf(last.before[i]) : i \in DatedPositions }
      IN  /\ Len(events) = Cardinality(days)
          /\ \A k, l \in DOMAIN events : events[k].date = events[l].date => k = l
          /\ \A k \in DOMAIN events :
                /\ events[k].article_count
                      = Cardinality({ i \in DatedPositions :
                                         DayOf(last.before[i]) = events[k].date })
                /\ Len(events[k].articles) = events[k].article_count
                /\ Len(groups[k].members) = events[k].article_count
                /\ \A m \in DOMAIN groups[k].members :
                      events[k].articles[m].url = last.before[groups[k].members[m]]["url"]
          /\ \A i \in DatedPositions :
                /\ Cardinality({ k \in DOMAIN events :
                                    i \in Range(groups[k].members) }) = 1
                /\ \A k \in DOMAIN events :
                      i \in Range(groups[k].members) =>
                         /\ events[k].date = DayOf(last.before[i])
                         /\ Cardinality({ m \in DOMAIN groups[k].members :
                                             groups[k].members[m] = i }) = 1

\* three different articles on the days 2024-01-01, 2024-01-01 and 2024-01-02
\* give two events covering 2 and 1 articles
C6_Witness ==
   /\ TimelineOk
   /\ Len(last.before) = 3
   /\ Cardinality({ last.before[i].url : i \in DOMAIN last.before }) = 3
   /\ Len(last.outcome.value.events) = 2
   /\ last.outcome.value.events[1].date = << "2", "0", "2", "4", "-", "0", "1", "-", "0", "1" >>
   /\ last.outcome.value.events[1].article_count = 2
   /\ last.outcome.value.events[2].date = << "2", "0", "2", "4", "-", "0", "1", "-", "0", "2" >>
   /\ last.outcome.value.events[2].article_count = 1

\* C7: an article is grouped under its published_date when present, otherwise
\* under the parsed date of its first content date when there is one,
\* otherwise under scraped_at
C7_DatePriority ==
   TimelineOk =>
      /\ \A i \in DatedPositions :
            /\ "timeline_date" \in DOMAIN last.outcome.articles[i]
            /\ last.outcome.articles[i]["timeline_date"] = ExpectedDate(last.before[i])
      /\ \A k \in DOMAIN last.outcome.groups :
            \A i \in Range(last.outcome.groups[k].members) :
               last.outcome.groups[k].date = DayOf(last.before[i])

\* a timeline over one article with all three date sources, one with content
\* dates and a scrape time only, and one with a scrape time only, each on a
\* day that the lower-priority sources do not give
C7_Witness ==
   /\ TimelineOk
   /\ \E i, j, l \in DOMAIN last.before :
         LET a == last.before[i]
             b == last.before[j]
             c == last.before[l]
         IN  /\ HasPublished(a) /\ HasContentDate(a) /\ HasScraped(a)
             /\ DayOf(a) # strftime_ymd(a["content_dates"][1]["parsed_date"])
             /\ DayOf(a) # strftime_ymd(a["scraped_at"])
             /\ ~ HasPublished(b) /\ HasContentDate(b) /\ HasScraped(b)
             /\ DayOf(b) # strftime_ymd(b["scraped_at"])
             /\ ~ HasPublished(c) /\ ~ HasContentDate(c) /\ HasScraped(c)
             /\ \E k \in DOMAIN last.outcome.value.events :
                   /\ last.outcome.value.events[k].date = DayOf(a)
                   /\ i \in Range(last.outcome.groups[k].members)
             /\ \E k \in DOMAIN last.outcome.value.events :
                   /\ last.outcome.value.events[k].date = DayOf(b)
                   /\ j \in Range(last.outcome.groups[k].members)
             /\ \E k \in DOMAIN last.outcome.value.events :
                   /\ last.outcome.value.events[k].date = DayOf(c)
                   /\ l \in Range(last.outcome.groups[k].members)

\* C9: generate_timeline leaves the articles handed in as they were: no field
\* added, removed or changed, so that the store gets the articles as the
\* enricher produced them
C9_InputUnchanged ==
   /\ TimelineOk => last.outcome.articles = last.before
   /\ ( /\ last.op = "insert_one"
        /\ last.request.op = "analyze_news"
        /\ last.response.code = 200 ) =>
         \A article \in Range(mongo.analyses[Len(mongo.analyses)].articles) :
            article \in EnrichedArticles

(***************************************************************************)
(* Properties of TimelineGenerator.generate_timeline on lists that hold    *)
(* articles without any date                                               *)
(***************************************************************************)
SampleTimelineDone == last.op = "sample_timeline"

SampleTimelineOk == SampleTimelineDone /\ last.status = "ok"

\* C8: an article without published_date, content dates and scraped_at is
\* referenced by no event and does not make generate_timeline fail: the call
\* gives what it gives on the remaining articles (no events, empty chart
\* series and a null date_range when none of them has a date), and
\* compare_articles takes the article as it takes the same article with a
\* scraped_at
C8_UndatedExcluded ==
   /\ ( SampleTimelineDone /\ \E i \in DOMAIN last.list : Undated(last.list[i]) ) =>
         LET rest == SelectSeq(last.list, LAMBDA a : ~ Undated(a))
         IN  /\ last.status = "ok"
             /\ \A k \in DOMAIN last.outcome.groups :
                   \A i \in Range(last.outcome.groups[k].members) :
                      ~ Undated(last.list[i])
             /\ \A k \in DOMAIN last.outcome.value.events :
                   \A m \in DOMAIN last.outcome.value.events[k].articles :
                      \E i \in DatedIn(last.list) :
                         last.outcome.value.events[k].articles[m].url = last.list[i].url
             /\ \E remaining \in generate_timeline(rest) :
                   /\ remaining.status = "ok"
                   /\ last.outcome.value.events = remaining.value.events
                   /\ last.outcome.value.chart_data = remaining.value.chart_data
                   /\ last.outcome.value.date_range = remaining.value.date_range
             /\ rest = << >> =>
                   /\ last.outcome.value.events = << >>
                   /\ last.outcome.value.chart_data.labels = << >>
                   /\ last.outcome.value.chart_data.datasets = << >>
                   /\ IsNone(last.outcome.value.date_range.start)
                   /\ IsNone(last.outcome.value.date_range.end)
   /\ ( Compared /\ (Undated(last.article1) \/ Undated(last.article2)) ) =>
         LET dated1 == [last.article1 EXCEPT !["scraped_at"] = ScrapedAt]
             dated2 == [last.article2 EXCEPT !["scraped_at"] = ScrapedAt]
         IN  IF last.status = "ok"
             THEN last.outcome = compare_articles(dated1, dated2,
                                    last.outcome.value.content_differences)
             ELSE last.status = compare_articles(dated1, dated2, << >>).status

\* a returned timeline over a list that holds an undated article between two
\* dated ones, its events made of the dated ones
C8_Witness ==
   /\ SampleTimelineOk
   /\ Len(last.list) = 3
   /\ Undated(last.list[2])
   /\ DatedIn(last.list) = { 1, 3 }
   /\ Len(last.outcome.value.events) > 0
   /\ last.outcome.value.total_articles = 3

(***************************************************************************)
(* Properties of NLPProcessor.process_article in an analysis request       *)
(***************************************************************************)
Processed == last.op = "process"

FieldOf ==
   [language |-> "language", tokens |-> "tokens", entities |-> "entities",
    keywords |-> "keywords", events |-> "events", dates |-> "content_dates"]

EmptyValueOf ==
   [tokens |-> << >>, keywords |-> << >>, events |-> << >>, dates |-> << >>,
    entities |-> [PERSON |-> << >>, ORGANIZATION |-> << >>, LOCATION |-> << >>,
                  MISC |-> << >>]]

\* C10: process_article degrades per field: when a sub-extractor throws, the
\* call still returns an enriched article whose field of that extractor is
\* empty and whose other fields are computed as without the failure
C10_DegradesPerField ==
   ( Processed /\ last.throws # {} ) =>
      /\ last.outcome.status = "ok"
      /\ \A e \in last.throws \ { "language" } :
            last.outcome.value[FieldOf[e]] = EmptyValueOf[e]
      /\ "language" \notin last.throws =>
            \A e \in Extractors \ last.throws :
               \E unfailing \in process_article(last.self, last.article, {}) :
                  last.outcome.value[FieldOf[e]] = unfailing.value[FieldOf[e]]

(***************************************************************************)
(* Properties of the records that reach the enricher in an analysis        *)
(* request                                                                 *)
(***************************************************************************)
\* the url gives no record with a title and a content: its page fails to
\* load, has no title or a blank one, or has no content (news_scraper.py lines
\* 36-37; a content of at most 100 characters is None)
LacksTitleOrContent(url) ==
   \A page \in Pages :
      page.url = url =>
         \/ page.title = NoneValue
         \/ Strip(page.title.value) = << >>
         \/ Len(Strip(CollapseWhitespace(page.content_text))) <= 100

\* the urls of a list of articles
UrlsOf(list) == [ i \in DOMAIN list |-> list[i].url ]

\* every article of the list has a title and a content
Complete(list) ==
   \A i \in DOMAIN list :
      /\ { "title", "content" } \subseteq DOMAIN list[i]
      /\ Len(list[i].title) > 0
      /\ Len(list[i].content) > 0

\* C11: a record with a missing or empty title or content is left out: no
\* enriched article is made of it, it reaches neither the timeline nor the
\* store, and leaving it out raises no error of the server; the articles of
\* a request are those of its other urls, in their order
C11_RejectsEmptyRecord ==
   LET Kept(urls) == SelectSeq(urls, LAMBDA url : ~ LacksTitleOrContent(url))
   IN  /\ \A request \in BagToSet(requests) :
             request.op = "analyze_news" =>
                /\ Complete(request.articles)
                /\ Complete(request.processed_articles)
                /\ UrlsOf(request.articles)
                      = Kept(SubSeq(request.data.urls, 1, request.scraped))
                /\ UrlsOf(request.processed_articles)
                      = SubSeq(UrlsOf(request.articles), 1, Len(request.processed_articles))
       /\ last.op = "scrape_article" =>
             /\ LacksTitleOrContent(last.request.data.urls[last.request.scraped + 1])
                   <=> last.article_data = NoneValue
             /\ "response" \in DOMAIN last =>
                   /\ last.response.code = 400
                   /\ Kept(last.request.data.urls) = << >>
             /\ "turned" \in DOMAIN last /\ last.turned.at = "process_article" =>
                   Kept(last.request.data.urls) # << >>
       /\ TimelineOk =>
             /\ last.outcome.value.total_articles = Len(Kept(last.data.urls))
             /\ \A k \in DOMAIN last.outcome.value.events :
                   /\ \A article \in Range(last.outcome.value.events[k].articles) :
                         Len(article.title) > 0
                   /\ Range(UrlsOf(last.outcome.value.events[k].articles))
                         \subseteq Range(Kept(last.data.urls))
       /\ ( /\ last.op = "insert_one"
            /\ last.request.op = "analyze_news"
            /\ last.response.code = 200 ) =>
             LET stored == mongo.analyses[Len(mongo.analyses)]
             IN  /\ Complete(stored.articles)
                 /\ UrlsOf(stored.articles) = Kept(last.request.data.urls)
                 /\ UrlsOf(last.response.articles) = Kept(last.request.data.urls)
                 /\ stored.timeline = last.request.timeline_data

\* a request with the url of a page with a blank title, the url of a page
\* with a content of 100 characters and the url of a page with both, answered
\* with the analysis of that one article
C11_Witness ==
   /\ last.op = "insert_one"
   /\ last.request.op = "analyze_news"
   /\ Len(last.request.data.urls) = 3
   /\ \E i, j \in DOMAIN last.request.data.urls :
         /\ \E page \in Pages :
               /\ page.url = last.request.data.urls[i]
               /\ page.title # NoneValue
               /\ Len(page.title.value) > 0
               /\ Strip(page.title.value) = << >>
         /\ \E page \in Pages :
               /\ page.url = last.request.data.urls[j]
               /\ Len(Strip(CollapseWhitespace(page.content_text))) = 100
   /\ last.response.code = 200
   /\ Len(mongo.analyses[Len(mongo.analyses)].articles) = 1
   /\ Len(last.response.articles) = 1

(***************************************************************************)
(* Properties of TimelineGenerator._calculate_event_intensity              *)
(***************************************************************************)
IntensityDone == last.op = "intensity"

\* 0.3*entity_count + 0.2*keyword_count + 0.2*min(word_count/1000, 1)
\* + 0.3*source_credibility of one article, in 1/(10 * Scale): the source is
\* looked up in the table and counts 0.5 when it is not there
TenfoldScore(article) ==
   LET entities == Get(article, "entities", << >>)
       source == Get(article, "source", UnknownSource)
   IN  3 * Scale * SumFn([ t \in DOMAIN entities |-> Len(entities[t]) ],
                         DOMAIN entities)
       + 2 * Scale * Len(Get(article, "keywords", << >>))
       + (2 * Scale * Min(Get(article, "word_count", 0), 1000)) \div 1000
       + 3 * (IF source \in DOMAIN source_credibility
              THEN source_credibility[source] ELSE Scale \div 2)

\* twice the mean of the scores of the group, in 1/Scale
TwiceMeanScore(group) ==
   (2 * SumFn([ i \in DOMAIN group |-> TenfoldScore(group[i]) ], DOMAIN group))
      \div (10 * Len(group))

\* C12: the intensity of a non-empty group is min(2 * mean of the articles'
\* scores, 10), up to rounding, so it lies within [0, 10]
C12_IntensityFormula ==
   ( IntensityDone /\ Len(last.group) > 0 ) =>
      /\ Abs(last.outcome - Min(TwiceMeanScore(last.group), 10 * Scale)) <= FloatTol
      /\ 0 <= last.outcome
      /\ last.outcome <= 10 * Scale

\* a group of two different articles, one of them from a source that is not in
\* the table and without entities and keywords, whose doubled mean is above 10
C12_Witness ==
   /\ IntensityDone
   /\ Len(last.group) = 2
   /\ last.group[1] # last.group[2]
   /\ \E i \in DOMAIN last.group :
         /\ "source" \in DOMAIN last.group[i]
         /\ last.group[i].source \notin DOMAIN source_credibility
         /\ Len(last.group[i].keywords) = 0
         /\ \A t \in DOMAIN last.group[i].entities : last.group[i].entities[t] = << >>
   /\ TwiceMeanScore(last.group) > 10 * Scale
   /\ last.outcome = 10 * Scale

(***************************************************************************)
(* Properties of SimilarityAnalyzer._compare_entities and _compare_keywords *)
(***************************************************************************)
EntitiesCompared == last.op = "entities" /\ last.status = "ok"

\* the entities of a mapping, each with its type
TypedEntities(entities) ==
   UNION { { << t, e >> : e \in Range(entities[t]) } : t \in DOMAIN entities }

\* C13: entity_comparison.similarity is 2 * |common| / (|entities1| + |entities2|)
\* with common the entities the two articles share type by type: 0 when neither
\* article has an entity, 1 when both have the same non-empty sets, and within
\* [0, 1] always
C13_EntityDice ==
   EntitiesCompared =>
      LET typed1 == TypedEntities(last.entities1)
          typed2 == TypedEntities(last.entities2)
          total == Cardinality(typed1) + Cardinality(typed2)
          similarity == last.outcome.value.similarity
      IN  /\ last.outcome.value.total_common = Cardinality(typed1 \cap typed2)
          /\ total > 0 =>
                /\ similarity * total <= 2 * Cardinality(typed1 \cap typed2) * Scale
                /\ 2 * Cardinality(typed1 \cap typed2) * Scale < (similarity + 1) * total
          /\ total = 0 => similarity = 0
          /\ ( typed1 = typed2 /\ typed1 # {} ) => similarity = Scale
          /\ 0 <= similarity
          /\ similarity <= Scale

\* two different mappings, with different sets of types, that share an entity
\* of one type and have others of their own
C13_Witness ==
   /\ EntitiesCompared
   /\ DOMAIN last.entities1 # DOMAIN last.entities2
   /\ TypedEntities(last.entities1) \cap TypedEntities(last.entities2) # {}
   /\ TypedEntities(last.entities1) \ TypedEntities(last.entities2) # {}
   /\ TypedEntities(last.entities2) \ TypedEntities(last.entities1) # {}
   /\ last.outcome.value.similarity > 0
   /\ last.outcome.value.similarity < Scale

KeywordsCompared == last.op = "keywords"

\* the keyword strings of a list that have a character other than white space
NonBlankKeywords(keywords) ==
   { kw \in { IF "kind" \in DOMAIN keywords[k] THEN keywords[k].value
               ELSE keywords[k].keyword : k \in DOMAIN keywords } :
        \E i \in DOMAIN kw : kw[i] \notin Whitespace }

\* C14: keyword_comparison.similarity is the Dice coefficient of the two sets
\* of non-blank keyword strings, whatever the scores and the order: 1 for the
\* same non-empty set, 0 for two empty lists, and equal for any two pairs of
\* lists with the same sets
C14_KeywordDice ==
   KeywordsCompared =>
      LET set1 == NonBlankKeywords(last.keywords1)
          set2 == NonBlankKeywords(last.keywords2)
          total == Cardinality(set1) + Cardinality(set2)
          similarity == last.outcome.similarity
      IN  /\ total > 0 =>
                /\ similarity * total <= 2 * Cardinality(set1 \cap set2) * Scale
                /\ 2 * Cardinality(set1 \cap set2) * Scale < (similarity + 1) * total
          /\ ( set1 = set2 /\ set1 # {} ) => similarity = Scale
          /\ ( last.keywords1 = << >> /\ last.keywords2 = << >> ) => similarity = 0
          /\ \A keywords1, keywords2 \in SampleKeywords :
                ( NonBlankKeywords(keywords1) = set1 /\ NonBlankKeywords(keywords2) = set2 )
                   => compare_keywords(keywords1, keywords2).similarity = similarity

\* two lists with the same two keyword strings in a different order and with
\* different scores
C14_Witness ==
   /\ KeywordsCompared
   /\ Len(last.keywords1) = 2
   /\ NonBlankKeywords(last.keywords1) = NonBlankKeywords(last.keywords2)
   /\ \A k \in DOMAIN last.keywords1 :
         /\ last.keywords1[k].keyword # last.keywords2[k].keyword
         /\ \A m \in DOMAIN last.keywords2 :
               last.keywords1[k].score # last.keywords2[m].score
   /\ last.outcome.similarity = Scale

(***************************************************************************)
(* Properties of SimilarityAnalyzer._analyze_sentiment_comparison          *)
(***************************************************************************)
SentimentCompared == last.op = "sentiment" /\ last.status = "ok"

\* the numbers of positive, neutral and negative keyword hits in a content
SentimentHits(content, language) ==
   [ bucket \in { "positive", "neutral", "negative" } |->
        CountKeywords(Lower(content), sentiment_keywords[bucket][language]) ]

\* what the sentiment of a content is to be: 0.3 / 0.4 / 0.3 without a hit,
\* the shares of the hits otherwise
ExpectedSentiment(hits) ==
   LET total == hits.positive + hits.neutral + hits.negative
   IN  IF total = 0
       THEN [positive |-> (3 * Scale) \div 10, neutral |-> (4 * Scale) \div 10,
             negative |-> (3 * Scale) \div 10]
       ELSE [ bucket \in { "positive", "neutral", "negative" } |->
                (hits[bucket] * Scale) \div total ]

\* C15: a content without a sentiment-keyword hit, the empty content included,
\* scores 0.3 / 0.4 / 0.3; a content with hits scores the shares of its hits,
\* which sum to 1 up to rounding; every bucket of sentiment_difference is the
\* absolute difference of the two articles' values
C15_SentimentScoring ==
   SentimentCompared =>
      LET result == last.outcome.value
          Scored(sentiment, content) ==
             /\ \A bucket \in { "positive", "neutral", "negative" } :
                   sentiment[bucket]
                      = ExpectedSentiment(SentimentHits(content, last.language))[bucket]
             /\ Abs(sentiment.positive + sentiment.neutral + sentiment.negative - Scale)
                   <= FloatTol
      IN  /\ Scored(result.article1, last.content1)
          /\ Scored(result.article2, last.content2)
          /\ \A bucket \in { "positive", "neutral", "negative" } :
                result.sentiment_difference[bucket]
                   = Abs(result.article1[bucket] - result.article2[bucket])

(***************************************************************************)
(* Properties of SimilarityAnalyzer._find_content_differences              *)
(***************************************************************************)
DifferencesFound == last.op = "differences"

\* the sentence set of a content of the comparison in last
SentenceSet(content) == Range(split_sentences(content, last.language))

\* the texts that content_differences reports for a side
ReportedFor(article) ==
   { last.outcome[k].text : k \in { m \in DOMAIN last.outcome :
                                        last.outcome[m].article = article } }

\* the entries of a side are at most five sentences of more than 30
\* characters, each reported once, that are in own and not in other
SideWithinCap(article, own, other) ==
   /\ Cardinality({ k \in DOMAIN last.outcome : last.outcome[k].article = article }) <= 5
   /\ Cardinality({ k \in DOMAIN last.outcome : last.outcome[k].article = article })
         = Cardinality(ReportedFor(article))
   /\ \A text \in ReportedFor(article) : Len(text) > 30 /\ text \in own \ other

\* a side reports min(k, 5) sentences when k sentences of more than 30
\* characters are in own and not in other
SideComplete(article, own, other) ==
   Cardinality(ReportedFor(article))
      = Min(Cardinality({ s \in own \ other : Len(s) > 30 }), 5)

\* C16: content_differences reports per side the sentences of that article's
\* sentence set that the other's set lacks and that are longer than 30
\* characters, at most 5 of them: min(k, 5) when there are k such sentences
C16_DifferencesCapped ==
   DifferencesFound =>
      /\ SideWithinCap(1, SentenceSet(last.content1), SentenceSet(last.content2))
      /\ SideWithinCap(2, SentenceSet(last.content2), SentenceSet(last.content1))
      /\ SideComplete(1, SentenceSet(last.content1), SentenceSet(last.content2))
      /\ SideComplete(2, SentenceSet(last.content2), SentenceSet(last.content1))

\* C17: when the two contents have the same set of sentences, whatever the
\* order and the repetitions, content_differences is the empty list
C17_SameSentencesNoDifferences ==
   ( DifferencesFound /\ SentenceSet(last.content1) = SentenceSet(last.content2) )
      => last.outcome = << >>

\* two contents with the same sentences of more than 30 characters, the second
\* in another order and with a repetition
C17_Witness ==
   /\ DifferencesFound
   /\ SentenceSet(last.content1) = SentenceSet(last.content2)
   /\ \E s \in SentenceSet(last.content1) : Len(s) > 30
   /\ Len(split_sentences(last.content2, last.language))
         > Cardinality(SentenceSet(last.content2))
   /\ split_sentences(last.content1, last.language)[1]
         # split_sentences(last.content2, last.language)[1]
   /\ last.outcome = << >>

(***************************************************************************)
(* Properties of SimilarityAnalyzer.compare_multiple_articles              *)
(***************************************************************************)
MultipleCompared == last.op = "compare_multiple"

\* C18: compare_multiple_articles on fewer than two articles returns a record
\* with an error field and without comparisons, and does not raise
C18_TooFewArticles ==
   ( MultipleCompared /\ Len(last.list) < 2 ) =>
      /\ last.status = "ok"
      /\ "error" \in DOMAIN last.outcome.value
      /\ Len(last.outcome.value.error) > 0
      /\ "comparisons" \notin DOMAIN last.outcome.value

\* the call on a list of one article, answered with the error record
C18_Witness ==
   /\ MultipleCompared
   /\ Len(last.list) = 1
   /\ last.status = "ok"
   /\ DOMAIN last.outcome.value = { "error" }

\* a result of compare_multiple_articles on two or more articles
PairsCompared == MultipleCompared /\ Len(last.list) >= 2 /\ last.status = "ok"

\* the float of the score of a comparison is the value the model has for
\* it: the three similarities are 0.0 or 1.0, the content similarity 1.0 being
\* that of two equal contents of one word
ExactScore(comparison, article1, article2) ==
   /\ comparison.entity_comparison.similarity \in { 0, Scale }
   /\ comparison.keyword_comparison.similarity \in { 0, Scale }
   /\ \/ comparison.content_similarity = 0
      \/ /\ comparison.content_similarity = Scale
         /\ article1.content = article2.content
         /\ Len(Runs(article1.content, WordChars, 1)) = 1
         /\ StopWordsFor(article1.language) \cap Range(Runs(article1.content, WordChars, 1)) = {}

\* the comparisons of the result in last whose score is surely in a bucket:
\* its float satisfies the test of the bucket, being the model's value or
\* farther than FloatTol from the limits 0.3 and 0.7
SurelyIn(in_bucket(_)) ==
   { k \in DOMAIN last.outcome.value.comparisons :
        LET entry == last.outcome.value.comparisons[k]
        IN  IF ExactScore(entry.comparison, last.list[entry.article1_index + 1],
                          last.list[entry.article2_index + 1])
            THEN in_bucket(entry.similarity_score)
            ELSE /\ in_bucket(entry.similarity_score - FloatTol)
                 /\ in_bucket(entry.similarity_score + FloatTol) }

\* C19: in every result of compare_multiple_articles on n >= 2 articles, each
\* pairwise score is counted in exactly one of high (> 0.7), medium (within
\* [0.3, 0.7], the limits included) and low (< 0.3), so the three counts sum to
\* n(n-1)/2; most_similar_pair has the greatest score of all pairs and
\* most_different_pair the least (up to rounding)
C19_DistributionAndExtremes ==
   PairsCompared =>
      LET result == last.outcome.value
          n == Len(last.list)
          High == SurelyIn(LAMBDA s : s * 10 > 7 * Scale)
          Medium == SurelyIn(LAMBDA s : s * 10 >= 3 * Scale /\ s * 10 <= 7 * Scale)
          Low == SurelyIn(LAMBDA s : s * 10 < 3 * Scale)
          Unsure == DOMAIN result.comparisons \ (High \cup Medium \cup Low)
      IN  /\ Len(result.comparisons) = (n * (n - 1)) \div 2
          /\ result.similarity_distribution.high + result.similarity_distribution.medium
                + result.similarity_distribution.low = (n * (n - 1)) \div 2
          /\ result.similarity_distribution.high >= Cardinality(High)
          /\ result.similarity_distribution.medium >= Cardinality(Medium)
          /\ result.similarity_distribution.low >= Cardinality(Low)
          /\ result.similarity_distribution.high <= Cardinality(High \cup Unsure)
          /\ result.similarity_distribution.medium <= Cardinality(Medium \cup Unsure)
          /\ result.similarity_distribution.low <= Cardinality(Low \cup Unsure)
          /\ \E k \in DOMAIN result.comparisons :
                result.most_similar_pair = result.comparisons[k]
          /\ \E k \in DOMAIN result.comparisons :
                result.most_different_pair = result.comparisons[k]
          /\ \A k \in DOMAIN result.comparisons :
                /\ result.comparisons[k].similarity_score
                      <= result.most_similar_pair.similarity_score + FloatTol
                /\ result.comparisons[k].similarity_score
                      >= result.most_different_pair.similarity_score - FloatTol
                /\ ExactScore(result.comparisons[k].comparison,
                              last.list[result.comparisons[k].article1_index + 1],
                              last.list[result.comparisons[k].article2_index + 1]) =>
                      /\ ExactScore(result.most_similar_pair.comparison,
                                    last.list[result.most_similar_pair.article1_index + 1],
                                    last.list[result.most_similar_pair.article2_index + 1]) =>
                            result.comparisons[k].similarity_score
                               <= result.most_similar_pair.similarity_score
                      /\ ExactScore(result.most_different_pair.comparison,
                                    last.list[result.most_different_pair.article1_index + 1],
                                    last.list[result.most_different_pair.article2_index + 1]) =>
                            result.comparisons[k].similarity_score
                               >= result.most_different_pair.similarity_score

\* three articles whose pairwise scores are 0.3, 0.7 and one below 0.3: the
\* first two are counted as medium, the third as low
C19_Witness ==
   /\ PairsCompared
   /\ Len(last.list) = 3
   /\ \E i, j, k \in DOMAIN last.outcome.value.comparisons :
         /\ last.outcome.value.comparisons[i].similarity_score * 10 = 3 * Scale
         /\ last.outcome.value.comparisons[j].similarity_score * 10 = 7 * Scale
         /\ last.outcome.value.comparisons[k].similarity_score * 10 < 3 * Scale - 10 * FloatTol
         /\ \A m \in { i, j } :
               ExactScore(last.outcome.value.comparisons[m].comparison,
                          last.list[last.outcome.value.comparisons[m].article1_index + 1],
                          last.list[last.outcome.value.comparisons[m].article2_index + 1])
   /\ last.outcome.value.similarity_distribution = [high |-> 0, medium |-> 2, low |-> 1]
   /\ last.outcome.value.most_similar_pair.similarity_score
         > last.outcome.value.most_different_pair.similarity_score

(***************************************************************************)
(* Properties of SimilarityAnalyzer._calculate_content_similarity          *)
(***************************************************************************)
SimilarityComputed == last.op = "content_similarity"

\* the unigram and bigram features of a cleaned content
FeaturesOf(content) ==
   Range(Analyze(preprocess_text(content, last.language), StopWordsFor(last.language)))

\* the vectorizer fails on the two cleaned contents
VectorizationFails ==
   TfidfFitTransform(<< preprocess_text(last.content1, last.language),
                        preprocess_text(last.content2, last.language) >>,
                     StopWordsFor(last.language), content_max_features).status = "raised"

\* C20: content_similarity is exactly 0.0 when a content is empty, when a
\* cleaned content is empty, when vectorization fails, and when the two
\* contents have no unigram or bigram feature in common
C20_ZeroContentSimilarity ==
   SimilarityComputed =>
      /\ ( Len(last.content1) = 0 \/ Len(last.content2) = 0 ) => last.outcome = 0
      /\ ( \/ Len(preprocess_text(last.content1, last.language)) = 0
           \/ Len(preprocess_text(last.content2, last.language)) = 0 ) => last.outcome = 0
      /\ VectorizationFails => last.outcome = 0
      /\ FeaturesOf(last.content1) \cap FeaturesOf(last.content2) = {} => last.outcome = 0

\* two contents that each have features, none of them in common
C20_Witness ==
   /\ SimilarityComputed
   /\ FeaturesOf(last.content1) # {}
   /\ FeaturesOf(last.content2) # {}
   /\ FeaturesOf(last.content1) \cap FeaturesOf(last.content2) = {}
   /\ last.outcome = 0

(***************************************************************************)
(* Properties of NLPProcessor._detect_language                             *)
(***************************************************************************)
LanguageDetected == last.op = "detect_language"

\* the characters of the Thai script: consonants, vowel and other letters, marks
ThaiScript == ThaiKoHo \cup ThaiOtherLetters \cup ThaiMarks

\* C21: the language is "th" exactly when the text has more Thai-script
\* characters than Latin letters, "en" exactly when it has more Latin letters,
\* "mixed" exactly when the two counts are equal; a text of Thai-script letters
\* only is "th" and a text of Latin letters only is "en"
C21_LanguageByScript ==
   LanguageDetected =>
      LET thai == CountIn(last.text, ThaiScript)
          latin == CountIn(last.text, LatinLetters)
      IN  /\ last.outcome \in { "th", "en", "mixed" }
          /\ last.outcome = "th" <=> thai > latin
          /\ last.outcome = "en" <=> latin > thai
          /\ last.outcome = "mixed" <=> thai = latin
          /\ (Len(last.text) > 0 /\ Range(last.text) \subseteq ThaiKoHo \cup ThaiOtherLetters)
                => last.outcome = "th"
          /\ (Len(last.text) > 0 /\ Range(last.text) \subseteq LatinLetters)
                => last.outcome = "en"

(***************************************************************************)
(* Properties of NLPProcessor.process_article over the articles of one     *)
(* analysis request and of the requests before it                          *)
(***************************************************************************)
\* an enriched article without its processed_at stamp
Unstamped(article) == [ f \in DOMAIN article \ { "processed_at" } |-> article[f] ]

\* C22: process_article leaves the record it was given and the processor as
\* they were, and apart from processed_at the article it returns is one that a
\* new processor returns for the same record alone, whichever articles the
\* processor enriched before: it differs from the record only in the fields
\* the enrichment adds
C22_EnrichmentPure ==
   Processed =>
      /\ last.outcome.article_data = last.article
      /\ nlp_processor = last.self
      /\ last.self = NLPProcessor
      /\ last.outcome.status = "ok" =>
            /\ last.turned.articles[last.position] = last.article
            /\ last.turned.processed_articles[last.position] = last.outcome.value
            /\ \E alone \in process_article(NLPProcessor, last.article, last.throws) :
                  Unstamped(last.outcome.value) = Unstamped(alone.value)
            /\ \A field \in DOMAIN last.article :
                  last.outcome.value[field] = last.article[field]
            /\ DOMAIN last.outcome.value \ DOMAIN last.article
                  = { "language", "tokens", "entities", "keywords", "events",
                      "content_dates", "processed_at", "word_count", "sentence_count" }
            /\ last.turned.faults = 0 =>
                  \A i \in DOMAIN last.turned.processed_articles :
                     /\ last.turned.processed_articles[i] \in EnrichedArticles
                     /\ last.turned.processed_articles[i].url = last.turned.articles[i].url

\* the record of one page enriched first and again after that of another
\* page by the one processor of the application
C22_Witness ==
   /\ Processed
   /\ last.outcome.status = "ok"
   /\ last.throws = {}
   /\ last.position = 3
   /\ last.turned.processed_articles[1].url = last.turned.processed_articles[3].url
   /\ last.turned.processed_articles[2].url # last.turned.processed_articles[1].url
   /\ last.turned.processed_articles[2].language # last.turned.processed_articles[1].language
   /\ last.outcome.article_data = last.article

(***************************************************************************)
(* Properties of NLPProcessor._tokenize_text                               *)
(***************************************************************************)
Tokenized == last.op = "tokenize"

\* the tokens the filter works on: the lower-cased words of an English text,
\* the segmenter's tokens of a Thai or mixed text
RawTokens(text, language) ==
   IF language = "en" THEN Runs(Lower(text), WordChars, 1) ELSE word_tokenize(text)

\* the positions of the raw tokens that the filter lets through
KeptPositions(tokens, language) ==
   { i \in DOMAIN tokens :
        IF language = "en"
        THEN tokens[i] \notin english_stopwords /\ ~ (Len(tokens[i]) <= 2)
        ELSE tokens[i] \notin thai_stopwords /\ ~ (Len(tokens[i]) <= 1) }

\* C23: the result is the raw token sequence with the stop words and the
\* short tokens taken out: the k-th result token is the k-th raw token that
\* passes the filter, so nothing is added, reordered or merged and duplicates
\* stay
C23_TokensFiltered ==
   Tokenized =>
      LET raw == RawTokens(last.text, last.language)
          kept == KeptPositions(raw, last.language)
          Kth(k) == CHOOSE i \in kept : Cardinality({ j \in kept : j <= i }) = k
      IN  /\ Len(last.outcome) = Cardinality(kept)
          /\ \A k \in DOMAIN last.outcome : last.outcome[k] = raw[Kth(k)]
          /\ last.outcome = tokenize_text(nlp_processor, last.text, last.language)

\* a text whose raw tokens hold a stop word, a short token and a token that
\* passes the filter twice
C23_Witness ==
   /\ Tokenized
   /\ \E i, j \in DOMAIN last.outcome : i # j /\ last.outcome[i] = last.outcome[j]
   /\ Len(last.outcome) < Len(RawTokens(last.text, last.language))
   /\ \E i \in DOMAIN RawTokens(last.text, last.language) :
         RawTokens(last.text, last.language)[i]
            \in (IF last.language = "en" THEN english_stopwords ELSE thai_stopwords)

(***************************************************************************)
(* Properties of NLPProcessor._extract_entities                            *)
(***************************************************************************)
EntitiesExtracted == last.op = "extract_entities"

\* the trimmed texts that the patterns of a type match in a text
TrimmedMatches(text, patterns) ==
   UNION { { Strip(Slice(text, found.start, found.end)) :
                found \in Range(FindIter(text, 1, patterns[k], FALSE)) } :
           k \in DOMAIN patterns }

\* C24: the result has exactly the types PERSON, ORGANIZATION, LOCATION and
\* MISC; for an English text every type is empty; for a Thai or mixed text
\* each type lists the trimmed matches of its patterns, none of them twice,
\* and MISC is empty
C24_EntityTypes ==
   EntitiesExtracted =>
      LET result == last.outcome
          Listed(type, expected) ==
             /\ Range(result[type]) = expected
             /\ \A i, j \in DOMAIN result[type] :
                   i # j => result[type][i] # result[type][j]
      IN  /\ DOMAIN result = { "PERSON", "ORGANIZATION", "LOCATION", "MISC" }
          /\ last.language = "en" => \A type \in DOMAIN result : result[type] = << >>
          /\ last.language \in { "th", "mixed" } =>
                /\ Listed("PERSON", TrimmedMatches(last.text, PersonPatterns))
                /\ Listed("ORGANIZATION", TrimmedMatches(last.text, OrganizationPatterns))
                /\ Listed("LOCATION", TrimmedMatches(last.text, LocationPatterns))
                /\ result.MISC = << >>

\* a Thai text in which a pattern matches the same trimmed text twice, once
\* with a blank at its end, and a different text once, and another type has a
\* match too
C24_Witness ==
   /\ EntitiesExtracted
   /\ last.language = "th"
   /\ Len(StrippedMatches(last.text, OrganizationPatterns)) = 3
   /\ Len(last.outcome.ORGANIZATION) = 2
   /\ \E found \in Range(FindIter(last.text, 1, OrganizationPatterns[2], FALSE)) :
         Slice(last.text, found.start, found.end)
            # Strip(Slice(last.text, found.start, found.end))
   /\ Len(last.outcome.PERSON) = 1

(***************************************************************************)
(* Properties of NLPProcessor._extract_keywords                            *)
(***************************************************************************)
KeywordsExtracted == last.op = "extract_keywords"

\* the words the vectorizer can make terms of: for an English text the words
\* of two or more characters that are no stop words of the vectorizer, for a
\* Thai or mixed text the words of two or more characters within the tokens
\* that the tokenizer keeps
TermWords(text, language) ==
   IF language = "en"
   THEN { w \in Range(Runs(Lower(text), WordChars, 2)) : w \notin SklearnEnglishStopWords }
   ELSE UNION { Range(Runs(Lower(token), WordChars, 2)) :
                   token \in Range(tokenize_text(nlp_processor, text, language)) }

\* C25: at most max_keywords pairs of a keyword and a score, every score
\* above 0, in non-increasing order of score; the empty list when the
\* vectorization fails, as for a text without any word the vectorizer can use
C25_KeywordsRanked ==
   KeywordsExtracted =>
      /\ Len(last.outcome) <= last.max_keywords
      /\ \A k \in DOMAIN last.outcome :
            /\ DOMAIN last.outcome[k] = { "keyword", "score" }
            /\ last.outcome[k].score > 0
      /\ \A k \in 1 .. Len(last.outcome) - 1 :
            last.outcome[k].score >= last.outcome[k + 1].score
      /\ (last.library_raises \/ TermWords(last.text, last.language) = {}) =>
            last.outcome = << >>

\* a text with more than ten terms of different scores, cut to the ten best
C25_Witness ==
   /\ KeywordsExtracted
   /\ ~ last.library_raises
   /\ last.max_keywords = default_max_keywords
   /\ Len(last.outcome) = default_max_keywords
   /\ Cardinality(TermWords(last.text, last.language)) > default_max_keywords
   /\ last.outcome[1].score > last.outcome[Len(last.outcome)].score

(***************************************************************************)
(* Properties of NLPProcessor._extract_events                              *)
(***************************************************************************)
EventsExtracted == last.op = "extract_events"

\* the matches of the event patterns of a language in a content, whatever the
\* case of the letters
EventMatches(content, language) ==
   LET OfPatterns(patterns) ==
          UNION { Range(FindIter(content, 1, patterns[k], TRUE)) : k \in DOMAIN patterns }
   IN  OfPatterns(IF language \in { "th", "mixed" }
                  THEN thai_event_patterns ELSE english_event_patterns)

\* C26: at most 5 events, each with confidence 0.7, the position of its match
\* and as context the content from 50 characters before the match to 50
\* characters after it, within the bounds of the content; when the content
\* has more than 5 matches, the events are the 5 matches that stand first in the
\* content
C26_FirstFiveEvents ==
   EventsExtracted =>
      LET found == EventMatches(last.content, last.language)
          Before(m) == Cardinality({ n \in found : n.start < m.start })
          OfMatch(event, m) ==
             /\ event.position = m.start
             /\ event.event_text = Slice(last.content, m.start, m.end)
             /\ event.context = Slice(last.content, Max(0, m.start - 50),
                                      Min(Len(last.content), m.end + 50))
      IN  /\ Len(last.outcome) = Min(5, Cardinality(found))
          /\ \A k \in DOMAIN last.outcome :
                /\ last.outcome[k].confidence = (7 * Scale) \div 10
                /\ \E m \in found : OfMatch(last.outcome[k], m)
          /\ \A m \in found :
                Before(m) < 5 => \E k \in DOMAIN last.outcome : last.outcome[k].position = m.start

(***************************************************************************)
(* Properties of the events of a timeline over the sample articles         *)
(***************************************************************************)
\* the articles of the g-th date group of the last timeline
GroupOf(g) ==
   [ k \in DOMAIN last.outcome.groups[g].members |->
        last.outcome.articles[last.outcome.groups[g].members[k]] ]

\* the entities and the keywords of the articles of a group
GroupEntities(group) ==
   UNION { UNION { Range(group[i].entities[type]) : type \in DOMAIN group[i].entities } :
           i \in DOMAIN group }

GroupKeywords(group) ==
   UNION { { group[i].keywords[k].keyword : k \in DOMAIN group[i].keywords } :
           i \in DOMAIN group }

\* in how many entity lists of the group's articles an entity stands
ListCount(group, entity) ==
   SumFn([ i \in DOMAIN group |->
             Cardinality({ type \in DOMAIN group[i].entities :
                              entity \in Range(group[i].entities[type]) }) ],
         DOMAIN group)

\* the score of a keyword summed over the group's articles
SummedScore(group, keyword) ==
   SumFn([ i \in DOMAIN group |->
             SumFn([ k \in DOMAIN group[i].keywords |->
                       IF group[i].keywords[k].keyword = keyword
                       THEN group[i].keywords[k].score ELSE 0 ],
                   DOMAIN group[i].keywords) ],
         DOMAIN group)

NoDuplicates(list) == \A i, j \in DOMAIN list : i # j => list[i] # list[j]

\* C27: an event lists at most 15 entities, the most frequent of its group;
\* at most 10 keywords, those of the highest summed score, each with that sum,
\* in non-increasing order; and the sources of the group's articles, each once
C27_EventSurfacesTop ==
   SampleTimelineOk =>
      \A g \in DOMAIN last.outcome.value.events :
         LET event == last.outcome.value.events[g]
             group == GroupOf(g)
             listed == { event.keywords[k].keyword : k \in DOMAIN event.keywords }
         IN  /\ Len(event.entities) = Min(15, Cardinality(GroupEntities(group)))
             /\ NoDuplicates(event.entities)
             /\ Range(event.entities) \subseteq GroupEntities(group)
             /\ \A inside \in Range(event.entities) :
                   \A outside \in GroupEntities(group) \ Range(event.entities) :
                      ListCount(group, outside) <= ListCount(group, inside)
             /\ Len(event.keywords) = Min(10, Cardinality(GroupKeywords(group)))
             /\ Cardinality(listed) = Len(event.keywords)
             /\ listed \subseteq GroupKeywords(group)
             /\ \A k \in DOMAIN event.keywords :
                   /\ event.keywords[k].score = SummedScore(group, event.keywords[k].keyword)
                   /\ k < Len(event.keywords) =>
                         event.keywords[k].score >= event.keywords[k + 1].score
                   /\ \A outside \in GroupKeywords(group) \ listed :
                         SummedScore(group, outside) <= event.keywords[k].score
             /\ NoDuplicates(event.sources)
             /\ Range(event.sources) = { group[i].source : i \in DOMAIN group }

\* an event of two articles of one source with more than 15 entities, an
\* entity of two lists among them, and more than 10 keywords
C27_Witness ==
   /\ SampleTimelineOk
   /\ \E g \in DOMAIN last.outcome.value.events :
         /\ last.outcome.value.events[g].article_count = 2
         /\ Len(last.outcome.value.events[g].sources) = 1
         /\ Cardinality(GroupEntities(GroupOf(g))) > 15
         /\ Len(last.outcome.value.events[g].entities) = 15
         /\ \E e \in Range(last.outcome.value.events[g].entities) :
               ListCount(GroupOf(g), e) = 2
         /\ Cardinality(GroupKeywords(GroupOf(g))) > 10
         /\ Len(last.outcome.value.events[g].keywords) = 10

(***************************************************************************)
(* Properties of the parts of one timeline result                          *)
(***************************************************************************)
\* the data of the series of chart_data with the given label
SeriesOf(chart_data, label) ==
   { chart_data.datasets[k].data :
        k \in { n \in DOMAIN chart_data.datasets : chart_data.datasets[n].label = label } }

\* C28: the labels, the intensity series and the article-count series of
\* chart_data are as long as events and hold, at each position, the date, the
\* intensity and the article count of the event at that position;
\* statistics.total_events is the number of events; date_range runs from the
\* date of the first event to the date of the last one, and both ends are null
\* exactly when there is no event
C28_PartsAgree ==
   TimelineOk =>
      LET result == last.outcome.value
          events == result.events
      IN  /\ result.chart_data.labels = [ k \in DOMAIN events |-> events[k].date ]
          /\ SeriesOf(result.chart_data, "Event Intensity")
                = { [ k \in DOMAIN events |-> events[k].intensity ] }
          /\ SeriesOf(result.chart_data, "Article Count")
                = { [ k \in DOMAIN events |-> events[k].article_count ] }
          /\ "total_events" \in DOMAIN result.statistics
          /\ result.statistics.total_events = Len(events)
          /\ (result.date_range.start = NoneValue) <=> (Len(events) = 0)
          /\ (result.date_range.end = NoneValue) <=> (Len(events) = 0)
          /\ Len(events) > 0 =>
                /\ result.date_range.start = [kind |-> "str", value |-> events[1].date]
                /\ result.date_range.end = [kind |-> "str", value |-> events[Len(events)].date]

\* the sum of the article counts of the events of a timeline result
EventArticles(result) ==
   SumFn([ k \in DOMAIN result.events |-> result.events[k].article_count ],
         DOMAIN result.events)

\* C29: total_articles and statistics.total_articles are the number of
\* articles handed in, undated ones included; the values of
\* statistics.source_distribution sum to that number; the article counts of
\* the events sum to the number of articles with a date, which is
\* total_articles exactly when no article was left out
C29_ArticleAccounting ==
   SampleTimelineOk =>
      LET result == last.outcome.value
      IN  /\ result.total_articles = Len(last.list)
          /\ { "total_articles", "source_distribution" } \subseteq DOMAIN result.statistics
          /\ result.statistics.total_articles = Len(last.list)
          /\ SumFn(result.statistics.source_distribution,
                   DOMAIN result.statistics.source_distribution) = Len(last.list)
          /\ EventArticles(result) = Cardinality(DatedIn(last.list))
          /\ (EventArticles(result) = result.total_articles)
                <=> (\A i \in DOMAIN last.list : ~ Undated(last.list[i]))

\* a timeline of three articles of two sources, one of them undated: the
\* events count the two dated ones
C29_Witness ==
   /\ SampleTimelineOk
   /\ Len(last.list) = 3
   /\ Cardinality(DatedIn(last.list)) = 2
   /\ EventArticles(last.outcome.value) = 2
   /\ last.outcome.value.statistics.total_articles = 3
   /\ Cardinality(DOMAIN last.outcome.value.statistics.source_distribution) = 2

\* the entry of the comparisons of a result for the articles i < j, counted
\* from 0
EntriesFor(result, i, j) ==
   { k \in DOMAIN result.comparisons :
        /\ result.comparisons[k].article1_index = i
        /\ result.comparisons[k].article2_index = j }

\* C30: for n >= 2 articles there is one comparison for every pair i < j and
\* no other, n(n-1)/2 in all, in lexicographic order of (i, j), each the
\* compare_articles result of article i with article j; the similarity matrix
\* is n by n and symmetric, holds the score of that comparison at [i][j] and
\* [j][i], and 0 on its diagonal
C30_PairwiseMatrix ==
   PairsCompared =>
      LET result == last.outcome.value
          n == Len(last.list)
          entry(k) == result.comparisons[k]
      IN  /\ Len(result.comparisons) = (n * (n - 1)) \div 2
          /\ \A k \in DOMAIN result.comparisons :
                /\ 0 <= entry(k).article1_index
                /\ entry(k).article1_index < entry(k).article2_index
                /\ entry(k).article2_index < n
                /\ entry(k).similarity_score = entry(k).comparison.similarity_score
                /\ Returned(entry(k).comparison)
                      = compare_articles(last.list[entry(k).article1_index + 1],
                                         last.list[entry(k).article2_index + 1],
                                         entry(k).comparison.content_differences)
                /\ k < Len(result.comparisons) =>
                      \/ entry(k).article1_index < entry(k + 1).article1_index
                      \/ /\ entry(k).article1_index = entry(k + 1).article1_index
                         /\ entry(k).article2_index < entry(k + 1).article2_index
          /\ \A i, j \in 0 .. n - 1 : i < j => Cardinality(EntriesFor(result, i, j)) = 1
          /\ Len(result.similarity_matrix) = n
          /\ \A i \in 1 .. n :
                /\ Len(result.similarity_matrix[i]) = n
                /\ result.similarity_matrix[i][i] = 0
          /\ \A k \in DOMAIN result.comparisons :
                /\ result.similarity_matrix[entry(k).article1_index + 1]
                                           [entry(k).article2_index + 1]
                      = entry(k).similarity_score
                /\ result.similarity_matrix[entry(k).article2_index + 1]
                                           [entry(k).article1_index + 1]
                      = entry(k).similarity_score

\* three articles compared, two of the three scores different and above 0
C30_Witness ==
   /\ PairsCompared
   /\ Len(last.list) = 3
   /\ last.outcome.value.similarity_matrix[1][2] > 0
   /\ last.outcome.value.similarity_matrix[1][2] # last.outcome.value.similarity_matrix[1][3]
   /\ last.outcome.value.comparisons[3].article1_index = 1
   /\ last.outcome.value.comparisons[3].article2_index = 2
====
